---- MODULE Spec2Model ----
(***************************************************************************)
(* The guest-to-host MPI translation layer of src/src/wavm/mpi.cpp.        *)
(*                                                                         *)
(* Every intrinsic of the file is one action.  An intrinsic that delegates *)
(* to a suspending call of the coordination engine (wait, probe, receive,  *)
(* send-receive, the collectives) is entered by its action, which does all *)
(* of the marshalling and issues the engine call, and is left by one of   *)
(* the ...Returns actions or EngineRaises when the engine call comes back. *)
(*                                                                         *)
(* Guest linear memory is a sparse map from byte address to byte (absent = *)
(* zero) next to its mapped size; 32-bit values are stored little-endian.  *)
(* The coordination engine (faabric) and the sandbox runtime (WAVM) are    *)
(* not part of src/; what the model needs of them follows spec.md.         *)
(***************************************************************************)
EXTENDS Integers, Sequences, FiniteSets, TLC

\* ------------------------------------------------------------------ bounds
NThreads == 2
MaxWorlds == 1
InitialPages == 1
MaxGrowths == 1
MaxPages == 3
MaxQueue == 2
MaxRequests == 2
MaxRounds == 2
MaxPosition == 6
MaxEntries == 3
MaxBacks == 2

\* ------------------------------------------------------- program constants
MPI_SUCCESS == 0
FAABRIC_COMM_WORLD == 1
FAABRIC_INFO_NULL == 1
MPI_CART_MAX_DIMENSIONS == 2
WASM_BYTES_PER_PAGE == 65536
WasiDirentSize == 24

Threads == 0 .. (NThreads - 1)
WorldSize == NThreads

\* The values FAABRIC_IN_PLACE may have: the macro comes from faabric/mpi/mpi.h,
\* which src/ does not hold.  One value no U8 equals and one that a U8 can
\* equal stand for every value of the macro.
InPlaceValues == {-1, 1}

NoCtx == [worldId |-> 0, rank |-> -1, live |-> FALSE]

\* -------------------------------------------------------------- guest image
\* Guest addresses of the objects the guest program passes to the calls.
G == [commWorld |-> 16, commOther |-> 20,
      dtInt |-> 32, dtByte |-> 40,
      infoNull |-> 48, infoOther |-> 52,
      op |-> 56,
      res |-> 64, req |-> 72, status |-> 80, ptrSlot |-> 96,
      coords |-> 104, dims |-> 112, periods |-> 120,
      buf |-> 128, buf2 |-> 160, name |-> 192]

\* A guest pointer no mapping reaches (a negative I32 widens to a huge Uptr).
Oob == -4

\* --------------------------------------------------------- memory marshaling
LoadByte(m, a) == IF a \in DOMAIN m THEN m[a] ELSE 0

StoreByte(m, a, b) ==
    IF b = 0 THEN [x \in (DOMAIN m) \ {a} |-> m[x]]
    ELSE [x \in (DOMAIN m) \cup {a} |-> IF x = a THEN b ELSE m[x]]

\* Byte k (0 = least significant) of the two's complement 32-bit value v.
ByteOf(v, k) ==
    IF k = 3 THEN (v \div 16777216) % 256
    ELSE ((v % 16777216) \div (IF k = 0 THEN 1 ELSE IF k = 1 THEN 256 ELSE 65536)) % 256

Store32(m, a, v) ==
    StoreByte(StoreByte(StoreByte(StoreByte(m, a, ByteOf(v, 0)),
                                  a + 1, ByteOf(v, 1)),
                        a + 2, ByteOf(v, 2)),
              a + 3, ByteOf(v, 3))

Load32(m, a) ==
    LET b3 == LoadByte(m, a + 3)
        hi == IF b3 >= 128 THEN b3 - 256 ELSE b3
    IN  hi * 16777216 + LoadByte(m, a + 2) * 65536
        + LoadByte(m, a + 1) * 256 + LoadByte(m, a)

RECURSIVE LoadBytes(_, _, _)
LoadBytes(m, a, n) ==
    IF n <= 0 THEN <<>> ELSE <<LoadByte(m, a)>> \o LoadBytes(m, a + 1, n - 1)

RECURSIVE StoreBytes(_, _, _)
StoreBytes(m, a, bs) ==
    IF bs = <<>> THEN m
    ELSE StoreBytes(StoreByte(m, a, Head(bs)), a + 1, Tail(bs))

\* Runtime::memoryRef / memoryArrayPtr: the range [p, p + n) of Uptr values
\* must lie in mapped memory.  p and n arrive as I32 and widen to Uptr, so a
\* negative one is far beyond any mapping.
InBounds(sz, p, n) == p >= 0 /\ n >= 0 /\ p <= sz /\ n <= sz - p

\* The product of two ints as the build computes it: in 32 bits, wrapping
\* (signed overflow is undefined; the build keeps the low 32 bits).  It is
\* computed on 16-bit halves so that no intermediate value leaves 32 bits.
Mul32(a, b) ==
    LET ah == a \div 65536
        al == a % 65536
        bh == b \div 65536
        bl == b % 65536
        x == al * (bl % 256)
        y == al * (bl \div 256)
        low == x + ((y % 256) * 256)
        carry == (low \div 65536) + (y \div 256)
        hi16 == (((ah * bl) % 65536) + ((al * bh) % 65536) + carry) % 65536
    IN  (IF hi16 >= 32768 THEN hi16 - 65536 ELSE hi16) * 65536 + (low % 65536)

\* The product of a count and a size as the engine computes it, in size_t:
\* exact, and held at the largest int wherever it is beyond every mapping.
SatMul(a, b) ==
    LET x == IF a < 0 THEN (IF a < -2147483647 THEN 2147483647 ELSE -a) ELSE a
        y == IF b < 0 THEN (IF b < -2147483647 THEN 2147483647 ELSE -b) ELSE b
        m == IF x = 0 \/ y = 0 THEN 0
             ELSE IF x > 2147483647 \div y THEN 2147483647 ELSE x * y
    IN  IF (a < 0) # (b < 0) THEN -m ELSE m

\* The int division of the build: it traps on a zero divisor and on the one
\* quotient that does not fit, and it truncates towards zero otherwise.
DivTraps(a, b) == b = 0 \/ (a < -2147483647 /\ b = -1)
TruncDiv(a, b) ==
    IF b < -2147483647 THEN (IF a < -2147483647 THEN 1 ELSE 0)
    ELSE LET pb == IF b < 0 THEN -b ELSE b
             fl == a \div pb
             tq == IF a < 0 /\ a % pb # 0 THEN fl + 1 ELSE fl
         IN  IF b < 0 THEN -tq ELSE tq
TruncRem(a, b) == a - TruncDiv(a, b) * b

\* The size rounded up to whole pages, as the U32 the handler keeps it in,
\* read as a signed 32-bit number: a result below zero stands for the U32 of
\* 2^31 or more it is (-65536 for 4294901760), and the sizes just under 2^32
\* round up to 2^32, which is 0 in 32 bits.
roundUpToWasmPageAligned(n) ==
    LET pages == (n \div WASM_BYTES_PER_PAGE) + (IF n % WASM_BYTES_PER_PAGE = 0 THEN 0 ELSE 1)
    IN  (((pages + 32768) % 65536) - 32768) * WASM_BYTES_PER_PAGE

\* The image every instance starts from: the descriptors the guest's MPI
\* library exports (communicators {id}, datatypes {id, size}, infos {id},
\* an operator {id}); everything else is zero.
InitialImage ==
    LET m0 == [x \in {} |-> 0]
        m1 == Store32(m0, G.commWorld, FAABRIC_COMM_WORLD)
        m2 == Store32(m1, G.commOther, FAABRIC_COMM_WORLD + 1)
        m3 == Store32(Store32(m2, G.dtInt, 1), G.dtInt + 4, 4)
        m4 == Store32(Store32(m3, G.dtByte, 2), G.dtByte + 4, 1)
        m5 == Store32(m4, G.infoNull, FAABRIC_INFO_NULL)
        m6 == Store32(m5, G.infoOther, FAABRIC_INFO_NULL + 1)
        m7 == Store32(m6, G.op, 1)
    IN  Store32(Store32(m7, G.buf, 11), G.buf + 4, 300)

\* No file descriptor is open: the state of storage in the runs that only
\* make MPI calls.
NoFd == [kind |-> "none", position |-> 0, dirContents |-> <<>>, dirContentsLoaded |-> FALSE,
         dirContentsIter |-> 0, op |-> "none", args |-> <<>>, ret |-> 0, actual |-> 0,
         ent |-> [next |-> 0, path |-> 0], returned |-> <<>>, backs |-> 0, straight |-> TRUE]

VARIABLES
    running,            \* the threads that host an instance in this run
    FAABRIC_IN_PLACE,   \* the value of the macro in this build
    endpointHost,       \* the host identity in the worker's configuration
    msg,                \* per thread: the instance's message record
    executingContext,   \* per thread: the thread_local MpiContext
    ctx,                \* per thread: the thread_local ContextWrapper, or NoCtx
    memSize,            \* per thread: bytes of mapped guest memory
    mem,                \* per thread: guest memory contents
    growths,            \* per thread: number of growMemory calls so far
    pc,                 \* per thread: "idle", "blocked", "faulted", or "absent"
    worlds,             \* engine: the worlds created so far, by id 1..Len
    queues,             \* engine: the undelivered point-to-point messages
    requests,           \* engine: the outstanding asynchronous requests
    pending,            \* per thread: the call suspended in the engine
    last,               \* the record of the latest intrinsic call
    fd                  \* storage: the file descriptor under test and its latest call

vars == <<running, FAABRIC_IN_PLACE, endpointHost, msg, executingContext, ctx, memSize, mem, growths, pc,
          worlds, queues, requests, pending, last, fd>>

engineVars == <<worlds, queues, requests>>


\* ------------------------------------------------------------- call records
\* What one intrinsic call did: its arguments, whether the thread had a
\* context when it was entered, the guest ranges it resolved into views
\* (memoryArrayPtr), the engine calls it made, the guest ranges it or the
\* engine wrote, the bytes it grew guest memory by, the handle the engine
\* returned for an asynchronous request, and how it ended.
Call(t, op, args) ==
    [t |-> t, op |-> op, args |-> args, hadCtx |-> ctx[t].live,
     views |-> <<>>, eng |-> <<>>, writes |-> <<>>, grew |-> 0, handle |-> 0,
     outcome |-> "none", ret |-> 0, fault |-> "none"]

NoCall == [t |-> -1, op |-> "none", args |-> <<>>, hadCtx |-> FALSE,
           views |-> <<>>, eng |-> <<>>, writes |-> <<>>, grew |-> 0, handle |-> 0,
           outcome |-> "none", ret |-> 0, fault |-> "none"]

Fault(c, kind) == [c EXCEPT !.outcome = "fault", !.fault = kind]
Returned(c, code) == [c EXCEPT !.outcome = "return", !.ret = code]
Suspended(c) == [c EXCEPT !.outcome = "blocked"]
Viewed(c, a, n) == [c EXCEPT !.views = Append(@, <<a, n>>)]
Wrote(c, a, n) == [c EXCEPT !.writes = Append(@, <<a, n>>)]
Grew(c, n) == [c EXCEPT !.grew = @ + n]
Delegated(c, fn, a) == [c EXCEPT !.eng = Append(@, [fn |-> fn, a |-> a])]

PcAfter(c) ==
    IF c.outcome = "fault" THEN "faulted"
    ELSE IF c.outcome = "blocked" THEN "blocked" ELSE "idle"

\* The call c of thread t ends (or suspends) with guest memory m.
Ends(t, c, m) ==
    /\ last' = c
    /\ fd' = fd
    /\ mem' = [mem EXCEPT ![t] = m]
    /\ pc' = [pc EXCEPT ![t] = PcAfter(c)]
    /\ pending' = [pending EXCEPT ![t] = IF c.outcome = "blocked" THEN c ELSE NoCall]

\* The fault kinds: "segv" a dereference of the null ctx or a host access
\* outside mapped guest memory, "oob" the runtime's out-of-bounds exception,
\* "throw" a std::runtime_error of this file, "engine" a failure raised by
\* the coordination engine.

\* ------------------------------------------------------ ContextWrapper
\* ContextWrapper::checkMpiComm
checkMpiComm(t, wasmPtr) ==
    IF ~InBounds(memSize[t], wasmPtr, 4) THEN "oob"
    ELSE IF Load32(mem[t], wasmPtr) # FAABRIC_COMM_WORLD THEN "throw"
    ELSE "ok"

\* ContextWrapper::getFaasmDataType with the read of hostDtype->size:
\* 0 when the descriptor is not in mapped memory.
getFaasmDataType(t, wasmPtr) == InBounds(memSize[t], wasmPtr, 8)
DtypeSize(t, wasmPtr) == Load32(mem[t], wasmPtr + 4)

\* ContextWrapper::getFaasmInfoType, ContextWrapper::getFaasmOp
getFaasmInfoType(t, wasmPtr) == InBounds(memSize[t], wasmPtr, 4)
getFaasmOp(t, wasmOp) == InBounds(memSize[t], wasmOp, 4)

\* ContextWrapper::writeMpiResult<int>: the memory after the write.
writeMpiResult(m, resPtr, result) == Store32(m, resPtr, result)

\* ContextWrapper::writeFaasmRequestId
writeFaasmRequestId(m, requestPtrPtr, requestId) ==
    writeMpiResult(m, requestPtrPtr, requestId)

\* A getFaasmRequestId that reads one byte of the slot: C9 tells it from the
\* real one on any handle outside 0 .. 255.
getFaasmRequestId_lowByte(m, requestPtrPtr) == LoadByte(m, requestPtrPtr)

\* ContextWrapper::getFaasmRequestId
getFaasmRequestId(m, requestPtrPtr) == Load32(m, requestPtrPtr)

\* isInPlace(U8 wasmPtr): the I32 argument narrows to 8 bits, and the U8 is
\* promoted to int for the comparison.
isInPlace(wasmPtr) == (wasmPtr % 256) = FAABRIC_IN_PLACE

\* A constructor that takes rank 0 whatever the executing context holds: the
\* rank query of C1 tells it from the real one.
ContextWrapper_rankZero(t, ec) == [worldId |-> ec.worldId, rank |-> 0, live |-> TRUE]

\* The ContextWrapper constructor: world and rank of the executing context.
ContextWrapper(t, ec) == [worldId |-> ec.worldId, rank |-> ec.rank, live |-> TRUE]

\* ---------------------------------------------------- coordination engine
WorldOk(w) == w \in 1 .. Len(worlds) /\ ~worlds[w].destroyed
RankOk(w, r) == r \in 0 .. (worlds[w].size - 1)

\* entered and left count, per rank, the collectives the rank has arrived at
\* and the collectives it has been let out of.
NewWorld == [size |-> WorldSize, destroyed |-> FALSE, issued |-> 0,
             coll |-> [r \in 0 .. (WorldSize - 1) |-> "out"],
             entered |-> [r \in 0 .. (WorldSize - 1) |-> 0],
             left |-> [r \in 0 .. (WorldSize - 1) |-> 0]]

\* Index of the oldest undelivered message from src to dst in world w, or 0.
FirstMsg(w, src, dst) ==
    LET S == {i \in 1 .. Len(queues) :
                queues[i].w = w /\ queues[i].src = src /\ queues[i].dst = dst}
    IN  IF S = {} THEN 0 ELSE CHOOSE i \in S : \A j \in S : i <= j

RemoveAt(q, i) == SubSeq(q, 1, i - 1) \o SubSeq(q, i + 1, Len(q))

\* The requests left when message k is delivered: an asynchronous send's
\* request, in the world of the message, completes.
AfterDelivery(k) ==
    {IF k.async /\ r.w = k.w /\ r.id = k.id /\ r.kind = "send" THEN [r EXCEPT !.done = TRUE] ELSE r
       : r \in requests}

\* ------------------------------------------------- context lifecycle
\* An MPI_Init that creates the world on a declared rank of exactly 0 and
\* joins on every other: C11 tells it from the real one on a rank below 0.
MPI_Init_createsOnRankZero(t, a, b) ==
    /\ pc[t] = "idle"
    /\ LET c == Call(t, "MPI_Init", <<a, b>>)
           call == msg[t]
       IN  IF call.mpirank = 0
           THEN LET w == Len(worlds) + 1
                    ec == [worldId |-> w, rank |-> 0]
                IN  /\ Len(worlds) < MaxWorlds
                    /\ worlds' = Append(worlds, NewWorld)
                    /\ msg' = [msg EXCEPT ![t].mpiworldid = w]
                    /\ executingContext' = [executingContext EXCEPT ![t] = ec]
                    /\ ctx' = [ctx EXCEPT ![t] = ContextWrapper(t, ec)]
                    /\ Ends(t, Returned(Delegated(c, "createWorld", <<w>>), 0), mem[t])
           ELSE LET ec == [worldId |-> call.mpiworldid, rank |-> call.mpirank]
                    d == Delegated(c, "joinWorld", <<call.mpiworldid>>)
                IN  IF WorldOk(call.mpiworldid)
                    THEN /\ executingContext' = [executingContext EXCEPT ![t] = ec]
                         /\ ctx' = [ctx EXCEPT ![t] = ContextWrapper(t, ec)]
                         /\ Ends(t, Returned(d, 0), mem[t])
                         /\ UNCHANGED <<worlds, msg>>
                    ELSE /\ Ends(t, Fault(d, "engine"), mem[t])
                         /\ UNCHANGED <<worlds, msg, executingContext, ctx>>
    /\ UNCHANGED <<running, FAABRIC_IN_PLACE, endpointHost, memSize, growths, queues, requests>>

\* An MPI_Init whose ctx is one pointer for all threads instead of one per
\* thread: C20 tells it from the real one.
MPI_Init_sharedContext(t, a, b) ==
    /\ pc[t] = "idle"
    /\ LET c == Call(t, "MPI_Init", <<a, b>>)
           call == msg[t]
       IN  IF call.mpirank <= 0
           THEN LET w == Len(worlds) + 1
                    ec == [worldId |-> w, rank |-> 0]
                IN  /\ Len(worlds) < MaxWorlds
                    /\ worlds' = Append(worlds, NewWorld)
                    /\ msg' = [msg EXCEPT ![t].mpiworldid = w]
                    /\ executingContext' = [executingContext EXCEPT ![t] = ec]
                    /\ ctx' = [u \in Threads |-> ContextWrapper(t, ec)]
                    /\ Ends(t, Returned(Delegated(c, "createWorld", <<w>>), 0), mem[t])
           ELSE LET ec == [worldId |-> call.mpiworldid, rank |-> call.mpirank]
                    d == Delegated(c, "joinWorld", <<call.mpiworldid>>)
                IN  IF WorldOk(call.mpiworldid)
                    THEN /\ executingContext' = [executingContext EXCEPT ![t] = ec]
                         /\ ctx' = [u \in Threads |-> ContextWrapper(t, ec)]
                         /\ Ends(t, Returned(d, 0), mem[t])
                         /\ UNCHANGED <<worlds, msg>>
                    ELSE /\ Ends(t, Fault(d, "engine"), mem[t])
                         /\ UNCHANGED <<worlds, msg, executingContext, ctx>>
    /\ UNCHANGED <<running, FAABRIC_IN_PLACE, endpointHost, memSize, growths, queues, requests>>

\* MpiContext::createWorld / joinWorld of the engine, as MPI_Init uses them.
\* createWorld makes world Len(worlds) + 1 and MPI_Init writes its id into
\* the caller's own record; joinWorld needs the world named by the record to
\* exist.  The records of the other ranks are the scheduler's to write.
MPI_Init(t, a, b) ==
    /\ pc[t] = "idle"
    /\ LET c == Call(t, "MPI_Init", <<a, b>>)
           call == msg[t]
       IN  IF call.mpirank <= 0
           THEN LET w == Len(worlds) + 1
                    ec == [worldId |-> w, rank |-> 0]
                IN  /\ Len(worlds) < MaxWorlds
                    /\ worlds' = Append(worlds, NewWorld)
                    /\ msg' = [msg EXCEPT ![t].mpiworldid = w]
                    /\ executingContext' = [executingContext EXCEPT ![t] = ec]
                    /\ ctx' = [ctx EXCEPT ![t] = ContextWrapper(t, ec)]
                    /\ Ends(t, Returned(Delegated(c, "createWorld", <<w>>), 0), mem[t])
           ELSE LET ec == [worldId |-> call.mpiworldid, rank |-> call.mpirank]
                    d == Delegated(c, "joinWorld", <<call.mpiworldid>>)
                IN  IF WorldOk(call.mpiworldid)
                    THEN /\ executingContext' = [executingContext EXCEPT ![t] = ec]
                         /\ ctx' = [ctx EXCEPT ![t] = ContextWrapper(t, ec)]
                         /\ Ends(t, Returned(d, 0), mem[t])
                         /\ UNCHANGED <<worlds, msg>>
                    ELSE /\ Ends(t, Fault(d, "engine"), mem[t])
                         /\ UNCHANGED <<worlds, msg, executingContext, ctx>>
    /\ UNCHANGED <<running, FAABRIC_IN_PLACE, endpointHost, memSize, growths, queues, requests>>

\* A terminateMpi that destroys the world and keeps the context: C3 tells it
\* from the real one.
terminateMpi_keepsContext(t, c) ==
    IF ~ctx[t].live
    THEN /\ Ends(t, Fault(c, "segv"), mem[t])
         /\ UNCHANGED <<ctx, worlds>>
    ELSE /\ worlds' = [worlds EXCEPT ![ctx[t].worldId].destroyed = TRUE]
         /\ ctx' = ctx
         /\ Ends(t, Returned(Delegated(c, "destroy", <<ctx[t].worldId>>), MPI_SUCCESS),
                 mem[t])

\* terminateMpi: destroy the world, then null the context.
terminateMpi(t, c) ==
    IF ~ctx[t].live
    THEN /\ Ends(t, Fault(c, "segv"), mem[t])
         /\ UNCHANGED <<ctx, worlds>>
    ELSE /\ worlds' = [worlds EXCEPT ![ctx[t].worldId].destroyed = TRUE]
         /\ ctx' = [ctx EXCEPT ![t] = NoCtx]
         /\ Ends(t, Returned(Delegated(c, "destroy", <<ctx[t].worldId>>), MPI_SUCCESS),
                 mem[t])

MPI_Abort(t, a, b) ==
    /\ pc[t] = "idle"
    /\ terminateMpi(t, Call(t, "MPI_Abort", <<a, b>>))
    /\ UNCHANGED <<running, FAABRIC_IN_PLACE, endpointHost, msg, executingContext, memSize, growths, queues, requests>>

\* An MPI_Finalize that nulls the context and leaves the world alone: C19
\* tells it from the real one.
MPI_Finalize_noDestroy(t) ==
    /\ pc[t] = "idle"
    /\ LET c == Call(t, "MPI_Finalize", <<>>)
       IN  IF ~ctx[t].live
           THEN /\ Ends(t, Fault(c, "segv"), mem[t])
                /\ UNCHANGED <<ctx, worlds>>
           ELSE /\ ctx' = [ctx EXCEPT ![t] = NoCtx]
                /\ Ends(t, Returned(c, MPI_SUCCESS), mem[t])
                /\ UNCHANGED worlds
    /\ UNCHANGED <<running, FAABRIC_IN_PLACE, endpointHost, msg, executingContext, memSize, growths, queues, requests>>

MPI_Finalize(t) ==
    /\ pc[t] = "idle"
    /\ terminateMpi(t, Call(t, "MPI_Finalize", <<>>))
    /\ UNCHANGED <<running, FAABRIC_IN_PLACE, endpointHost, msg, executingContext, memSize, growths, queues, requests>>

\* ------------------------------------------- calls that touch no engine state
\* What every call that neither delegates nor grows memory leaves alone.
Local(t, c, m) ==
    /\ Ends(t, c, m)
    /\ UNCHANGED <<running, FAABRIC_IN_PLACE, endpointHost, msg, executingContext, ctx, memSize, growths, engineVars>>

\* An unsupported call that returns success instead of throwing: C4 tells it
\* from the real one.
Unsupported_returns(t, op, args) ==
    /\ pc[t] = "idle"
    /\ Local(t, Returned(Call(t, op, args), MPI_SUCCESS), mem[t])

\* A call whose body is a throw of std::runtime_error.
Unsupported(t, op, args) ==
    /\ pc[t] = "idle"
    /\ Local(t, Fault(Call(t, op, args), "throw"), mem[t])

\* An inert call that dereferences the context first, as the delegating calls
\* do: C12 tells it from the real one on a thread without a context.
Inert_needsContext(t, op, args) ==
    /\ pc[t] = "idle"
    /\ IF ctx[t].live THEN Local(t, Returned(Call(t, op, args), MPI_SUCCESS), mem[t])
       ELSE Local(t, Fault(Call(t, op, args), "segv"), mem[t])

\* A call whose body is only `return MPI_SUCCESS`.
Inert(t, op, args) ==
    /\ pc[t] = "idle"
    /\ Local(t, Returned(Call(t, op, args), MPI_SUCCESS), mem[t])

MPI_Get_version(t, version, subversion) ==
    Unsupported(t, "MPI_Get_version", <<version, subversion>>)
MPI_Comm_dup(t, comm, newComm) == Unsupported(t, "MPI_Comm_dup", <<comm, newComm>>)
MPI_Comm_split(t, comm, color, key, newComm) ==
    Unsupported(t, "MPI_Comm_split", <<comm, color, key, newComm>>)
MPI_Comm_c2f(t, comm) == Unsupported(t, "MPI_Comm_c2f", <<comm>>)
MPI_Comm_f2c(t, fComm) == Unsupported(t, "MPI_Comm_f2c", <<fComm>>)
MPI_Rsend(t, buffer, count, datatype, destRank, tag, comm) ==
    Unsupported(t, "MPI_Rsend", <<buffer, count, datatype, destRank, tag, comm>>)
MPI_Waitall(t, count, requestArray, statusArray) ==
    Unsupported(t, "MPI_Waitall", <<count, requestArray, statusArray>>)
MPI_Waitany(t, count, requestArray, idx, status) ==
    Unsupported(t, "MPI_Waitany", <<count, requestArray, idx, status>>)
MPI_Allgatherv(t, sendBuf, sendCount, sendType, recvBuf, recvCount, dspls, recvType, comm) ==
    Unsupported(t, "MPI_Allgatherv",
                <<sendBuf, sendCount, sendType, recvBuf, recvCount, dspls, recvType, comm>>)
MPI_Reduce_scatter(t, sendBuf, recvBuf, recvCount, datatype, op, comm) ==
    Unsupported(t, "MPI_Reduce_scatter", <<sendBuf, recvBuf, recvCount, datatype, op, comm>>)
MPI_Alltoallv(t, sendBuf, sendCount, sdispls, sendType, recvBuf, recvCount, rdispls, recvType, comm) ==
    Unsupported(t, "MPI_Alltoallv",
                <<sendBuf, sendCount, sdispls, sendType, recvBuf, recvCount, rdispls,
                  recvType, comm>>)
MPI_Op_create(t, userFn, commute, op) == Unsupported(t, "MPI_Op_create", <<userFn, commute, op>>)
MPI_Op_free(t, op) == Unsupported(t, "MPI_Op_free", <<op>>)
MPI_Win_create(t, basePtr, size, dispUnit, info, comm, winPtrPtr) ==
    Unsupported(t, "MPI_Win_create", <<basePtr, size, dispUnit, info, comm, winPtrPtr>>)
MPI_Win_fence(t, assert, winPtr) == Unsupported(t, "MPI_Win_fence", <<assert, winPtr>>)
MPI_Get(t, recvBuf, recvCount, recvType, sendRank, sendOffset, sendCount, sendType, winPtr) ==
    Unsupported(t, "MPI_Get",
                <<recvBuf, recvCount, recvType, sendRank, sendOffset, sendCount, sendType,
                  winPtr>>)
MPI_Put(t, sendBuf, sendCount, sendType, recvRank, recvOffset, recvCount, recvType, winPtr) ==
    Unsupported(t, "MPI_Put",
                <<sendBuf, sendCount, sendType, recvRank, recvOffset, recvCount, recvType,
                  winPtr>>)
MPI_Win_free(t, winPtr) == Unsupported(t, "MPI_Win_free", <<winPtr>>)
MPI_Win_get_attr(t, winPtr, attrKey, attrResPtrPtr, flagResPtr) ==
    Unsupported(t, "MPI_Win_get_attr", <<winPtr, attrKey, attrResPtrPtr, flagResPtr>>)
MPI_Request_free(t, requestPtr) == Unsupported(t, "MPI_Request_free", <<requestPtr>>)
MPI_Type_free(t, datatype) == Unsupported(t, "MPI_Type_free", <<datatype>>)

MPI_Comm_free(t, comm) == Inert(t, "MPI_Comm_free", <<comm>>)
MPI_Free_mem(t, basePtr) == Inert(t, "MPI_Free_mem", <<basePtr>>)
MPI_Type_contiguous(t, count, oldDatatypePtr, newDatatypePtrPtr) ==
    Inert(t, "MPI_Type_contiguous", <<count, oldDatatypePtr, newDatatypePtrPtr>>)
MPI_Type_commit(t, datatypePtrPtr) == Inert(t, "MPI_Type_commit", <<datatypePtrPtr>>)

\* ------------------------------------------------------------------ queries
MPI_Comm_size(t, comm, resPtr) ==
    /\ pc[t] = "idle"
    /\ LET c == Call(t, "MPI_Comm_size", <<comm, resPtr>>)
           cc == checkMpiComm(t, comm)
       IN  IF ~ctx[t].live THEN Local(t, Fault(c, "segv"), mem[t])
           ELSE IF cc # "ok" THEN Local(t, Fault(c, cc), mem[t])
           ELSE IF ~InBounds(memSize[t], resPtr, 4)
                THEN Local(t, Fault(Delegated(c, "getSize", <<>>), "oob"), mem[t])
           ELSE Local(t, Returned(Wrote(Delegated(c, "getSize", <<>>), resPtr, 4), MPI_SUCCESS),
                      writeMpiResult(mem[t], resPtr, worlds[ctx[t].worldId].size))

MPI_Comm_rank(t, comm, resPtr) ==
    /\ pc[t] = "idle"
    /\ LET c == Call(t, "MPI_Comm_rank", <<comm, resPtr>>)
           cc == checkMpiComm(t, comm)
       IN  IF ~ctx[t].live THEN Local(t, Fault(c, "segv"), mem[t])
           ELSE IF cc # "ok" THEN Local(t, Fault(c, cc), mem[t])
           ELSE IF ~InBounds(memSize[t], resPtr, 4) THEN Local(t, Fault(c, "oob"), mem[t])
           ELSE Local(t, Returned(Wrote(c, resPtr, 4), MPI_SUCCESS),
                      writeMpiResult(mem[t], resPtr, ctx[t].rank))

\* MPI_Get_count: bytesSize is the fourth int of MPI_Status.  The remainder
\* and the quotient are those of C++ ints: a datatype of size 0 stops the
\* thread with SIGFPE at the remainder, before anything is written.
MPI_Get_count(t, statusPtr, datatype, countPtr) ==
    /\ pc[t] = "idle"
    /\ LET c == Call(t, "MPI_Get_count", <<statusPtr, datatype, countPtr>>)
           bytesSize == Load32(mem[t], statusPtr + 12)
           size == DtypeSize(t, datatype)
       IN  IF ~ctx[t].live THEN Local(t, Fault(c, "segv"), mem[t])
           ELSE IF ~InBounds(memSize[t], statusPtr, 16) THEN Local(t, Fault(c, "oob"), mem[t])
           ELSE IF ~getFaasmDataType(t, datatype) THEN Local(t, Fault(c, "oob"), mem[t])
           ELSE IF DivTraps(bytesSize, size) THEN Local(t, Fault(c, "sigfpe"), mem[t])
           ELSE IF TruncRem(bytesSize, size) # 0 THEN Local(t, Returned(c, 1), mem[t])
           ELSE IF ~InBounds(memSize[t], countPtr, 4) THEN Local(t, Fault(c, "oob"), mem[t])
           ELSE Local(t, Returned(Wrote(c, countPtr, 4), MPI_SUCCESS),
                      writeMpiResult(mem[t], countPtr, TruncDiv(bytesSize, size)))

MPI_Type_size(t, typePtr, res) ==
    /\ pc[t] = "idle"
    /\ LET c == Call(t, "MPI_Type_size", <<typePtr, res>>)
       IN  IF ~ctx[t].live THEN Local(t, Fault(c, "segv"), mem[t])
           ELSE IF ~getFaasmDataType(t, typePtr) THEN Local(t, Fault(c, "oob"), mem[t])
           ELSE IF ~InBounds(memSize[t], res, 4) THEN Local(t, Fault(c, "oob"), mem[t])
           ELSE Local(t, Returned(Wrote(c, res, 4), MPI_SUCCESS),
                      writeMpiResult(mem[t], res, DtypeSize(t, typePtr)))

\* ---------------------------------------------------------- point to point
\* The handles the engine hands out for asynchronous requests.
\* The k-th handle a world hands out: the engine draws them from a generator
\* of distinct ids, of either sign and of more than one byte.
HandleOf(k) == IF k % 2 = 1 THEN 299 + k ELSE 0 - k
NextHandle(w) == HandleOf(worlds[w].issued + 1)

\* The engine refuses a call on a destroyed world or with a rank that is
\* not of the world.
EngineAccepts(w, ranks) == WorldOk(w) /\ \A r \in ranks : RankOk(w, r)

\* What ends a call that has not got as far as the engine, or "ok".
\* steps is the sequence of the checks' results in program order.
RECURSIVE FirstFailure(_)
FirstFailure(steps) ==
    IF steps = <<>> THEN "ok"
    ELSE IF Head(steps) # "ok" THEN Head(steps) ELSE FirstFailure(Tail(steps))

Live(t) == IF ctx[t].live THEN "ok" ELSE "segv"
Ref(t, p, n) == IF InBounds(memSize[t], p, n) THEN "ok" ELSE "oob"

\* An MPI_Send that hands over the count bytes of its view instead of count
\* elements: C16 tells it from the real one on any datatype wider than a byte.
MPI_Send_countBytes(t, buffer, count, datatype, destRank, tag, comm) ==
    /\ pc[t] = "idle"
    /\ LET c == Call(t, "MPI_Send", <<buffer, count, datatype, destRank, tag, comm>>)
           f == FirstFailure(<<Live(t), checkMpiComm(t, comm), Ref(t, datatype, 8),
                               Ref(t, buffer, count)>>)
           w == ctx[t].worldId
           n == SatMul(count, DtypeSize(t, datatype))
           d == Delegated(Viewed(c, buffer, count), "send",
                          <<ctx[t].rank, destRank, buffer, DtypeSize(t, datatype), count>>)
       IN  IF f # "ok" THEN Local(t, Fault(c, f), mem[t])
           ELSE IF ~EngineAccepts(w, {destRank}) THEN Local(t, Fault(d, "engine"), mem[t])
           ELSE IF ~InBounds(memSize[t], buffer, n) THEN Local(t, Fault(d, "segv"), mem[t])
           ELSE /\ Len(queues) < MaxQueue
                /\ queues' = Append(queues, [w |-> w, src |-> ctx[t].rank, dst |-> destRank,
                                             data |-> LoadBytes(mem[t], buffer, count),
                                             async |-> FALSE, id |-> 0])
                /\ Ends(t, Returned(d, 0), mem[t])
                /\ UNCHANGED <<running, FAABRIC_IN_PLACE, endpointHost, msg, executingContext, ctx, memSize, growths,
                               worlds, requests>>

\* An MPI_Send that hands its tag to the engine's send: C27 tells it from the
\* real one.
MPI_Send_passesTag(t, buffer, count, datatype, destRank, tag, comm) ==
    /\ pc[t] = "idle"
    /\ LET c == Call(t, "MPI_Send", <<buffer, count, datatype, destRank, tag, comm>>)
           f == FirstFailure(<<Live(t), checkMpiComm(t, comm), Ref(t, datatype, 8),
                               Ref(t, buffer, count)>>)
           w == ctx[t].worldId
           n == SatMul(count, DtypeSize(t, datatype))
           d == Delegated(Viewed(c, buffer, count), "send",
                          <<ctx[t].rank, destRank, buffer, DtypeSize(t, datatype), count, tag>>)
       IN  IF f # "ok" THEN Local(t, Fault(c, f), mem[t])
           ELSE IF ~EngineAccepts(w, {destRank}) THEN Local(t, Fault(d, "engine"), mem[t])
           ELSE IF ~InBounds(memSize[t], buffer, n) THEN Local(t, Fault(d, "segv"), mem[t])
           ELSE /\ Len(queues) < MaxQueue
                /\ queues' = Append(queues, [w |-> w, src |-> ctx[t].rank, dst |-> destRank,
                                             data |-> LoadBytes(mem[t], buffer, n),
                                             async |-> FALSE, id |-> 0])
                /\ Ends(t, Returned(d, 0), mem[t])
                /\ UNCHANGED <<running, FAABRIC_IN_PLACE, endpointHost, msg, executingContext, ctx, memSize, growths,
                               worlds, requests>>

\* The engine's send/isend read count elements of the datatype at the host
\* pointer of the view; a read outside mapped memory stops the thread.
MPI_Send(t, buffer, count, datatype, destRank, tag, comm) ==
    /\ pc[t] = "idle"
    /\ LET c == Call(t, "MPI_Send", <<buffer, count, datatype, destRank, tag, comm>>)
           f == FirstFailure(<<Live(t), checkMpiComm(t, comm), Ref(t, datatype, 8),
                               Ref(t, buffer, count)>>)
           w == ctx[t].worldId
           n == SatMul(count, DtypeSize(t, datatype))
           d == Delegated(Viewed(c, buffer, count), "send",
                          <<ctx[t].rank, destRank, buffer, DtypeSize(t, datatype), count>>)
       IN  IF f # "ok" THEN Local(t, Fault(c, f), mem[t])
           ELSE IF ~EngineAccepts(w, {destRank}) THEN Local(t, Fault(d, "engine"), mem[t])
           ELSE IF ~InBounds(memSize[t], buffer, n) THEN Local(t, Fault(d, "segv"), mem[t])
           ELSE /\ Len(queues) < MaxQueue
                /\ queues' = Append(queues, [w |-> w, src |-> ctx[t].rank, dst |-> destRank,
                                             data |-> LoadBytes(mem[t], buffer, n),
                                             async |-> FALSE, id |-> 0])
                /\ Ends(t, Returned(d, 0), mem[t])
                /\ UNCHANGED <<running, FAABRIC_IN_PLACE, endpointHost, msg, executingContext, ctx, memSize, growths,
                               worlds, requests>>

\* An MPI_Isend that catches the engine's failure, writes a null handle and
\* reports success: C21 tells it from the real one.
MPI_Isend_swallows(t, buffer, count, datatype, destRank, tag, comm, requestPtrPtr) ==
    /\ pc[t] = "idle"
    /\ LET c == Call(t, "MPI_Isend",
                     <<buffer, count, datatype, destRank, tag, comm, requestPtrPtr>>)
           f == FirstFailure(<<Live(t), checkMpiComm(t, comm), Ref(t, datatype, 8),
                               Ref(t, buffer, count)>>)
           w == ctx[t].worldId
           n == SatMul(count, DtypeSize(t, datatype))
           d == Delegated(Viewed(c, buffer, count), "isend",
                          <<ctx[t].rank, destRank, buffer, DtypeSize(t, datatype), count>>)
       IN  IF f # "ok" THEN Local(t, Fault(c, f), mem[t])
           ELSE IF ~EngineAccepts(w, {destRank})
                THEN IF ~InBounds(memSize[t], requestPtrPtr, 4)
                     THEN Local(t, Fault(d, "oob"), mem[t])
                     ELSE Local(t, Returned(Wrote(d, requestPtrPtr, 4), MPI_SUCCESS),
                                writeFaasmRequestId(mem[t], requestPtrPtr, 0))
           ELSE IF ~InBounds(memSize[t], buffer, n) THEN Local(t, Fault(d, "segv"), mem[t])
           ELSE LET requestId == NextHandle(w) IN
                /\ worlds[w].issued < MaxRequests
                /\ worlds' = [worlds EXCEPT ![w].issued = @ + 1]
                /\ Len(queues) < MaxQueue
                /\ queues' = Append(queues, [w |-> w, src |-> ctx[t].rank, dst |-> destRank,
                                             data |-> LoadBytes(mem[t], buffer, n),
                                             async |-> TRUE, id |-> requestId])
                /\ requests' = requests \cup
                       {[id |-> requestId, w |-> w, kind |-> "send", rank |-> ctx[t].rank,
                         peer |-> destRank, buf |-> buffer, n |-> n, done |-> FALSE]}
                /\ LET e == [d EXCEPT !.handle = requestId]
                   IN  IF ~InBounds(memSize[t], requestPtrPtr, 4)
                       THEN Ends(t, Fault(e, "oob"), mem[t])
                       ELSE Ends(t, Returned(Wrote(e, requestPtrPtr, 4), MPI_SUCCESS),
                                 writeFaasmRequestId(mem[t], requestPtrPtr, requestId))
                /\ UNCHANGED <<running, FAABRIC_IN_PLACE, endpointHost, msg, executingContext, ctx, memSize, growths>>

MPI_Isend(t, buffer, count, datatype, destRank, tag, comm, requestPtrPtr) ==
    /\ pc[t] = "idle"
    /\ LET c == Call(t, "MPI_Isend",
                     <<buffer, count, datatype, destRank, tag, comm, requestPtrPtr>>)
           f == FirstFailure(<<Live(t), checkMpiComm(t, comm), Ref(t, datatype, 8),
                               Ref(t, buffer, count)>>)
           w == ctx[t].worldId
           n == SatMul(count, DtypeSize(t, datatype))
           d == Delegated(Viewed(c, buffer, count), "isend",
                          <<ctx[t].rank, destRank, buffer, DtypeSize(t, datatype), count>>)
       IN  IF f # "ok" THEN Local(t, Fault(c, f), mem[t])
           ELSE IF ~EngineAccepts(w, {destRank}) THEN Local(t, Fault(d, "engine"), mem[t])
           ELSE IF ~InBounds(memSize[t], buffer, n) THEN Local(t, Fault(d, "segv"), mem[t])
           ELSE LET requestId == NextHandle(w) IN
                /\ worlds[w].issued < MaxRequests
                /\ worlds' = [worlds EXCEPT ![w].issued = @ + 1]
                /\ Len(queues) < MaxQueue
                /\ queues' = Append(queues, [w |-> w, src |-> ctx[t].rank, dst |-> destRank,
                                             data |-> LoadBytes(mem[t], buffer, n),
                                             async |-> TRUE, id |-> requestId])
                /\ requests' = requests \cup
                       {[id |-> requestId, w |-> w, kind |-> "send", rank |-> ctx[t].rank,
                         peer |-> destRank, buf |-> buffer, n |-> n, done |-> FALSE]}
                /\ LET e == [d EXCEPT !.handle = requestId]
                   IN  IF ~InBounds(memSize[t], requestPtrPtr, 4)
                       THEN Ends(t, Fault(e, "oob"), mem[t])
                       ELSE Ends(t, Returned(Wrote(e, requestPtrPtr, 4), MPI_SUCCESS),
                                 writeFaasmRequestId(mem[t], requestPtrPtr, requestId))
                /\ UNCHANGED <<running, FAABRIC_IN_PLACE, endpointHost, msg, executingContext, ctx, memSize, growths>>

\* MPI_Recv suspends in the engine's recv.
MPI_Recv(t, buffer, count, datatype, sourceRank, tag, comm, statusPtr) ==
    /\ pc[t] = "idle"
    /\ LET c == Call(t, "MPI_Recv",
                     <<buffer, count, datatype, sourceRank, tag, comm, statusPtr>>)
           f == FirstFailure(<<Live(t), checkMpiComm(t, comm), Ref(t, statusPtr, 16),
                               Ref(t, datatype, 8), Ref(t, buffer, count)>>)
           d == Delegated(Viewed(c, buffer, count), "recv",
                          <<sourceRank, ctx[t].rank, buffer, DtypeSize(t, datatype), count,
                            statusPtr>>)
       IN  IF f # "ok" THEN Local(t, Fault(c, f), mem[t])
           ELSE IF ~EngineAccepts(ctx[t].worldId, {sourceRank})
                THEN Local(t, Fault(d, "engine"), mem[t])
           ELSE Local(t, Suspended(d), mem[t])

MPI_Irecv(t, buffer, count, datatype, sourceRank, tag, comm, requestPtrPtr) ==
    /\ pc[t] = "idle"
    /\ LET c == Call(t, "MPI_Irecv",
                     <<buffer, count, datatype, sourceRank, tag, comm, requestPtrPtr>>)
           f == FirstFailure(<<Live(t), checkMpiComm(t, comm), Ref(t, datatype, 8),
                               Ref(t, buffer, count)>>)
           w == ctx[t].worldId
           d == Delegated(Viewed(c, buffer, count), "irecv",
                          <<sourceRank, ctx[t].rank, buffer, DtypeSize(t, datatype), count>>)
       IN  IF f # "ok" THEN Local(t, Fault(c, f), mem[t])
           ELSE IF ~EngineAccepts(w, {sourceRank}) THEN Local(t, Fault(d, "engine"), mem[t])
           ELSE LET requestId == NextHandle(w) IN
                /\ worlds[w].issued < MaxRequests
                /\ worlds' = [worlds EXCEPT ![w].issued = @ + 1]
                /\ requests' = requests \cup
                       {[id |-> requestId, w |-> w, kind |-> "recv", rank |-> ctx[t].rank,
                         peer |-> sourceRank, buf |-> buffer,
                         n |-> SatMul(count, DtypeSize(t, datatype)), done |-> FALSE]}
                /\ LET e == [d EXCEPT !.handle = requestId]
                   IN  IF ~InBounds(memSize[t], requestPtrPtr, 4)
                       THEN Ends(t, Fault(e, "oob"), mem[t])
                       ELSE Ends(t, Returned(Wrote(e, requestPtrPtr, 4), MPI_SUCCESS),
                                 writeFaasmRequestId(mem[t], requestPtrPtr, requestId))
                /\ UNCHANGED <<running, FAABRIC_IN_PLACE, endpointHost, msg, executingContext, ctx, memSize, growths,
                               queues>>

\* MPI_Sendrecv: the engine's sendRecv sends, then suspends in the receive.
\* The views are built over the 32-bit products ns and nr; the engine reads
\* sendCount elements, es bytes, which differ from ns when the product wraps.
MPI_Sendrecv(t, sendBuf, sendCount, sendType, destination, sendTag, recvBuf, recvCount, recvType, source, recvTag, comm, statusPtr) ==
    /\ pc[t] = "idle"
    /\ LET c == Call(t, "MPI_Sendrecv",
                     <<sendBuf, sendCount, sendType, destination, sendTag,
                       recvBuf, recvCount, recvType, source, recvTag, comm, statusPtr>>)
           ns == Mul32(sendCount, DtypeSize(t, sendType))
           nr == Mul32(recvCount, DtypeSize(t, recvType))
           f == FirstFailure(<<Live(t), checkMpiComm(t, comm), Ref(t, sendType, 8),
                               Ref(t, recvType, 8), Ref(t, statusPtr, 16),
                               Ref(t, sendBuf, ns), Ref(t, recvBuf, nr)>>)
           w == ctx[t].worldId
           d == Delegated(Viewed(Viewed(c, sendBuf, ns), recvBuf, nr), "sendRecv",
                          <<sendBuf, sendCount, DtypeSize(t, sendType), destination,
                            recvBuf, recvCount, DtypeSize(t, recvType), source,
                            ctx[t].rank, statusPtr>>)
           es == SatMul(sendCount, DtypeSize(t, sendType))
       IN  IF f # "ok" THEN Local(t, Fault(c, f), mem[t])
           ELSE IF ~EngineAccepts(w, {destination, source})
                THEN Local(t, Fault(d, "engine"), mem[t])
           ELSE IF ~InBounds(memSize[t], sendBuf, es) THEN Local(t, Fault(d, "segv"), mem[t])
           ELSE /\ Len(queues) < MaxQueue
                /\ queues' = Append(queues, [w |-> w, src |-> ctx[t].rank,
                                             dst |-> destination,
                                             data |-> LoadBytes(mem[t], sendBuf, es),
                                             async |-> FALSE, id |-> 0])
                /\ Ends(t, Suspended(d), mem[t])
                /\ UNCHANGED <<running, FAABRIC_IN_PLACE, endpointHost, msg, executingContext, ctx, memSize, growths,
                               worlds, requests>>

\* An MPI_Wait that clears the request slot before it awaits the handle:
\* C30 tells it from the real one by the bytes of the slot.
MPI_Wait_clearsSlot(t, requestPtrPtr, status) ==
    /\ pc[t] = "idle"
    /\ LET c == Call(t, "MPI_Wait", <<requestPtrPtr, status>>)
           f == FirstFailure(<<Ref(t, requestPtrPtr, 4), Live(t)>>)
           requestId == getFaasmRequestId(mem[t], requestPtrPtr)
           d == Delegated(c, "awaitAsyncRequest", <<requestId>>)
       IN  IF f # "ok" THEN Local(t, Fault(c, f), mem[t])
           ELSE IF ~(WorldOk(ctx[t].worldId) /\
                     \E r \in requests : r.id = requestId /\ r.w = ctx[t].worldId
                                         /\ r.rank = ctx[t].rank)
                THEN Local(t, Fault(d, "engine"), mem[t])
           ELSE Local(t, Suspended(Wrote(d, requestPtrPtr, 4)),
                      writeFaasmRequestId(mem[t], requestPtrPtr, 0))

\* An MPI_Wait that reads the handle and returns success without awaiting it:
\* C17 tells it from the real one on any request that is not complete.
MPI_Wait_noAwait(t, requestPtrPtr, status) ==
    /\ pc[t] = "idle"
    /\ LET c == Call(t, "MPI_Wait", <<requestPtrPtr, status>>)
           f == FirstFailure(<<Ref(t, requestPtrPtr, 4), Live(t)>>)
           requestId == getFaasmRequestId(mem[t], requestPtrPtr)
           d == Delegated(c, "awaitAsyncRequest", <<requestId>>)
       IN  IF f # "ok" THEN Local(t, Fault(c, f), mem[t])
           ELSE IF ~(WorldOk(ctx[t].worldId) /\
                     \E r \in requests : r.id = requestId /\ r.w = ctx[t].worldId
                                         /\ r.rank = ctx[t].rank)
                THEN Local(t, Fault(d, "engine"), mem[t])
           ELSE Local(t, Returned(c, MPI_SUCCESS), mem[t])

\* MPI_Wait reads the handle out of the request slot and suspends in the
\* engine's awaitAsyncRequest; the engine refuses a handle it does not hold.
\* getFaasmRequestId reads the slot through the executing module's memory and
\* touches no member of the context, so a slot outside memory is found before
\* a missing context is.
MPI_Wait(t, requestPtrPtr, status) ==
    /\ pc[t] = "idle"
    /\ LET c == Call(t, "MPI_Wait", <<requestPtrPtr, status>>)
           f == FirstFailure(<<Ref(t, requestPtrPtr, 4), Live(t)>>)
           requestId == getFaasmRequestId(mem[t], requestPtrPtr)
           d == Delegated(c, "awaitAsyncRequest", <<requestId>>)
       IN  IF f # "ok" THEN Local(t, Fault(c, f), mem[t])
           ELSE IF ~(WorldOk(ctx[t].worldId) /\
                     \E r \in requests : r.id = requestId /\ r.w = ctx[t].worldId
                                         /\ r.rank = ctx[t].rank)
                THEN Local(t, Fault(d, "engine"), mem[t])
           ELSE Local(t, Suspended(d), mem[t])

MPI_Probe(t, source, tag, comm, statusPtr) ==
    /\ pc[t] = "idle"
    /\ LET c == Call(t, "MPI_Probe", <<source, tag, comm, statusPtr>>)
           f == FirstFailure(<<Live(t), checkMpiComm(t, comm), Ref(t, statusPtr, 16)>>)
           d == Delegated(c, "probe", <<source, ctx[t].rank, statusPtr>>)
       IN  IF f # "ok" THEN Local(t, Fault(c, f), mem[t])
           ELSE IF ~EngineAccepts(ctx[t].worldId, {source})
                THEN Local(t, Fault(d, "engine"), mem[t])
           ELSE Local(t, Suspended(d), mem[t])

\* --------------------------------------------------------------- collectives
\* The send side of a collective that honours MPI_IN_PLACE: the in-place test,
\* the bounds check that is made when it fails, the view that is then built,
\* and the host buffer handed to the engine.
SendRef(t, sendBuf, n) == IF isInPlace(sendBuf) THEN "ok" ELSE Ref(t, sendBuf, n)
SendViewed(c, sendBuf, n) == IF isInPlace(sendBuf) THEN c ELSE Viewed(c, sendBuf, n)
HostSendBuffer(sendBuf, hostRecvBuffer) ==
    IF isInPlace(sendBuf) THEN hostRecvBuffer ELSE sendBuf

\* The call c, whose checks ended as f, delegates to the collective d of the
\* engine and suspends in it; the engine notes the rank as arrived.
EnterCollective(t, c, f, d, ranks) ==
    LET w == ctx[t].worldId
    IN  IF f # "ok" THEN Local(t, Fault(c, f), mem[t])
        ELSE IF ~EngineAccepts(w, ranks) THEN Local(t, Fault(d, "engine"), mem[t])
        ELSE /\ worlds[w].entered[ctx[t].rank] < MaxRounds
             /\ worlds' = [worlds EXCEPT ![w].coll[ctx[t].rank] = "in",
                                         ![w].entered[ctx[t].rank] = @ + 1]
             /\ Ends(t, Suspended(d), mem[t])
             /\ UNCHANGED <<running, FAABRIC_IN_PLACE, endpointHost, msg, executingContext, ctx, memSize, growths,
                            queues, requests>>

\* The arguments of a collective as the engine gets them: the rank, the root
\* (-1 when there is none), the host send and receive buffers, the counts.
CollArgs(t, root, send, recv, sendCount, recvCount) ==
    <<ctx[t].rank, root, send, recv, sendCount, recvCount>>

MPI_Bcast(t, buffer, count, datatype, root, comm) ==
    /\ pc[t] = "idle"
    /\ LET c == Call(t, "MPI_Bcast", <<buffer, count, datatype, root, comm>>)
           n == Mul32(count, DtypeSize(t, datatype))
           f == FirstFailure(<<Live(t), checkMpiComm(t, comm), Ref(t, datatype, 8),
                               Ref(t, buffer, n)>>)
       IN  EnterCollective(t, c, f,
               Delegated(Viewed(c, buffer, n), "broadcast",
                         CollArgs(t, root, buffer, buffer, count, count)), {root})

\* An MPI_Barrier that checks the communicator and returns without the
\* engine's barrier: C18 tells it from the real one at the first barrier.
MPI_Barrier_noWait(t, comm) ==
    /\ pc[t] = "idle"
    /\ LET c == Call(t, "MPI_Barrier", <<comm>>)
           f == FirstFailure(<<Live(t), checkMpiComm(t, comm)>>)
       IN  IF f # "ok" THEN Local(t, Fault(c, f), mem[t])
           ELSE Local(t, Returned(c, MPI_SUCCESS), mem[t])

MPI_Barrier(t, comm) ==
    /\ pc[t] = "idle"
    /\ LET c == Call(t, "MPI_Barrier", <<comm>>)
           f == FirstFailure(<<Live(t), checkMpiComm(t, comm)>>)
       IN  EnterCollective(t, c, f,
               Delegated(c, "barrier", CollArgs(t, -1, 0, 0, 0, 0)), {})

MPI_Scatter(t, sendBuf, sendCount, sendType, recvBuf, recvCount, recvType, root, comm) ==
    /\ pc[t] = "idle"
    /\ LET c == Call(t, "MPI_Scatter",
                     <<sendBuf, sendCount, sendType, recvBuf, recvCount, recvType, root, comm>>)
           ns == Mul32(sendCount, DtypeSize(t, sendType))
           nr == Mul32(recvCount, DtypeSize(t, recvType))
           f == FirstFailure(<<Live(t), checkMpiComm(t, comm), Ref(t, sendType, 8),
                               Ref(t, recvType, 8), Ref(t, sendBuf, ns), Ref(t, recvBuf, nr)>>)
       IN  EnterCollective(t, c, f,
               Delegated(Viewed(Viewed(c, sendBuf, ns), recvBuf, nr), "scatter",
                         CollArgs(t, root, sendBuf, recvBuf, sendCount, recvCount)), {root})

MPI_Gather(t, sendBuf, sendCount, sendType, recvBuf, recvCount, recvType, root, comm) ==
    /\ pc[t] = "idle"
    /\ LET c == Call(t, "MPI_Gather",
                     <<sendBuf, sendCount, sendType, recvBuf, recvCount, recvType, root, comm>>)
           ns == Mul32(sendCount, DtypeSize(t, sendType))
           nr == Mul32(recvCount, DtypeSize(t, recvType))
           f == FirstFailure(<<Live(t), checkMpiComm(t, comm), Ref(t, sendType, 8),
                               Ref(t, recvType, 8), Ref(t, recvBuf, nr),
                               SendRef(t, sendBuf, ns)>>)
       IN  EnterCollective(t, c, f,
               Delegated(SendViewed(Viewed(c, recvBuf, nr), sendBuf, ns), "gather",
                         CollArgs(t, root, HostSendBuffer(sendBuf, recvBuf), recvBuf,
                                  sendCount, recvCount)), {root})

MPI_Allgather(t, sendBuf, sendCount, sendType, recvBuf, recvCount, recvType, comm) ==
    /\ pc[t] = "idle"
    /\ LET c == Call(t, "MPI_Allgather",
                     <<sendBuf, sendCount, sendType, recvBuf, recvCount, recvType, comm>>)
           ns == Mul32(sendCount, DtypeSize(t, sendType))
           nr == Mul32(recvCount, DtypeSize(t, recvType))
           f == FirstFailure(<<Live(t), checkMpiComm(t, comm), Ref(t, sendType, 8),
                               Ref(t, recvType, 8), Ref(t, recvBuf, nr),
                               SendRef(t, sendBuf, ns)>>)
       IN  EnterCollective(t, c, f,
               Delegated(SendViewed(Viewed(c, recvBuf, nr), sendBuf, ns), "allGather",
                         CollArgs(t, -1, HostSendBuffer(sendBuf, recvBuf), recvBuf,
                                  sendCount, recvCount)), {})

MPI_Reduce(t, sendBuf, recvBuf, count, datatype, op, root, comm) ==
    /\ pc[t] = "idle"
    /\ LET c == Call(t, "MPI_Reduce", <<sendBuf, recvBuf, count, datatype, op, root, comm>>)
           n == Mul32(count, DtypeSize(t, datatype))
           f == FirstFailure(<<Live(t), checkMpiComm(t, comm), Ref(t, datatype, 8),
                               Ref(t, recvBuf, n), SendRef(t, sendBuf, n), Ref(t, op, 4)>>)
       IN  EnterCollective(t, c, f,
               Delegated(SendViewed(Viewed(c, recvBuf, n), sendBuf, n), "reduce",
                         CollArgs(t, root, HostSendBuffer(sendBuf, recvBuf), recvBuf,
                                  count, count)), {root})

\* MPI_Allreduce builds its views over count bytes.
MPI_Allreduce(t, sendBuf, recvBuf, count, datatype, op, comm) ==
    /\ pc[t] = "idle"
    /\ LET c == Call(t, "MPI_Allreduce", <<sendBuf, recvBuf, count, datatype, op, comm>>)
           f == FirstFailure(<<Live(t), checkMpiComm(t, comm), Ref(t, datatype, 8),
                               Ref(t, op, 4), Ref(t, recvBuf, count),
                               SendRef(t, sendBuf, count)>>)
       IN  EnterCollective(t, c, f,
               Delegated(SendViewed(Viewed(c, recvBuf, count), sendBuf, count), "allReduce",
                         CollArgs(t, -1, HostSendBuffer(sendBuf, recvBuf), recvBuf,
                                  count, count)), {})

MPI_Scan(t, sendBuf, recvBuf, count, datatype, op, comm) ==
    /\ pc[t] = "idle"
    /\ LET c == Call(t, "MPI_Scan", <<sendBuf, recvBuf, count, datatype, op, comm>>)
           n == Mul32(count, DtypeSize(t, datatype))
           f == FirstFailure(<<Live(t), checkMpiComm(t, comm), Ref(t, datatype, 8),
                               Ref(t, recvBuf, n), SendRef(t, sendBuf, n), Ref(t, op, 4)>>)
       IN  EnterCollective(t, c, f,
               Delegated(SendViewed(Viewed(c, recvBuf, n), sendBuf, n), "scan",
                         CollArgs(t, -1, HostSendBuffer(sendBuf, recvBuf), recvBuf,
                                  count, count)), {})

MPI_Alltoall(t, sendBuf, sendCount, sendType, recvBuf, recvCount, recvType, comm) ==
    /\ pc[t] = "idle"
    /\ LET c == Call(t, "MPI_Alltoall",
                     <<sendBuf, sendCount, sendType, recvBuf, recvCount, recvType, comm>>)
           ns == Mul32(sendCount, DtypeSize(t, sendType))
           nr == Mul32(recvCount, DtypeSize(t, recvType))
           f == FirstFailure(<<Live(t), checkMpiComm(t, comm), Ref(t, sendType, 8),
                               Ref(t, recvType, 8), Ref(t, sendBuf, ns), Ref(t, recvBuf, nr)>>)
       IN  EnterCollective(t, c, f,
               Delegated(Viewed(Viewed(c, sendBuf, ns), recvBuf, nr), "allToAll",
                         CollArgs(t, -1, sendBuf, recvBuf, sendCount, recvCount)), {})

\* faabric::util::getSystemConfig().endpointHost: the identities a worker's
\* configuration may hold ("h", "host", "worker-1"), and the one of the runs
\* that never ask for it.
Hosts == {<<104>>, <<104, 111, 115, 116>>, <<119, 111, 114, 107, 101, 114, 45, 49>>}
EndpointHost == <<104, 111, 115, 116>>

\* MPI_Get_processor_name: strcpy of the identity and its terminator to buf;
\* bufLen is logged and not read again.  A copy that runs past the end of
\* mapped memory is undefined: the call dies on the first store that crosses
\* the end, and how many of the bytes before it have reached memory by then
\* depends on the width of the stores the build's strcpy makes, so any
\* number of them from none to all that fit may have.
MPI_Get_processor_name(t, buf, bufLen) ==
    /\ pc[t] = "idle"
    /\ LET c == Call(t, "MPI_Get_processor_name", <<buf, bufLen>>)
           host == Append(endpointHost, 0)
           n == Len(host)
       IN  IF ~InBounds(memSize[t], buf, 1) THEN Local(t, Fault(c, "oob"), mem[t])
           ELSE IF ~InBounds(memSize[t], buf, n)
                THEN \E k \in 0 .. (memSize[t] - buf) :
                        Local(t, Fault(IF k = 0 THEN c ELSE Wrote(c, buf, k), "segv"),
                              StoreBytes(mem[t], buf, SubSeq(host, 1, k)))
           ELSE Local(t, Returned(Wrote(c, buf, n), MPI_SUCCESS),
                      StoreBytes(mem[t], buf, host))

\* WAVMWasmModule::growMemory takes the size as a U32 and maps whole pages
\* for it; nBytes is that U32 read as a signed 32-bit number, so one below 0
\* is a size of 2^31 bytes or more.  The module may map MaxPages pages: a
\* request that would take memory beyond them is refused with an exception
\* before anything is mapped.
growMemoryRefuses(t, nBytes) ==
    LET pages == (IF nBytes < 0 THEN 65536 ELSE 0) + (nBytes \div WASM_BYTES_PER_PAGE)
                 + (IF nBytes % WASM_BYTES_PER_PAGE = 0 THEN 0 ELSE 1)
    IN  (memSize[t] \div WASM_BYTES_PER_PAGE) + pages > MaxPages

\* WAVMWasmModule::growMemory: the guest address of the added region is the
\* size memory had.  What a call that grows guest memory by nBytes leaves
\* alone.
Growing(t, nBytes) ==
    /\ growths[t] < MaxGrowths
    /\ memSize' = [memSize EXCEPT ![t] = @ + nBytes]
    /\ growths' = [growths EXCEPT ![t] = @ + 1]
    /\ UNCHANGED <<running, FAABRIC_IN_PLACE, endpointHost, msg, executingContext, ctx, engineVars>>

\* MPI_Alloc_mem: the info descriptor is read through ctx, memory is grown and
\* the result slot resolved through the executing module.
MPI_Alloc_mem(t, memSizeArg, info, resPtrPtr) ==
    /\ pc[t] = "idle"
    /\ LET c == Call(t, "MPI_Alloc_mem", <<memSizeArg, info, resPtrPtr>>)
           f == FirstFailure(<<Live(t), Ref(t, info, 4),
                               IF Load32(mem[t], info) # FAABRIC_INFO_NULL
                               THEN "throw" ELSE "ok">>)
           pageAlignedSize == roundUpToWasmPageAligned(memSizeArg)
           mappedWasmPtr == memSize[t]
           g == Grew(c, pageAlignedSize)
       IN  IF f # "ok" THEN Local(t, Fault(c, f), mem[t])
           ELSE IF growMemoryRefuses(t, pageAlignedSize) THEN Local(t, Fault(c, "throw"), mem[t])
           ELSE /\ Growing(t, pageAlignedSize)
                /\ IF ~InBounds(memSize[t] + pageAlignedSize, resPtrPtr, 4)
                   THEN Ends(t, Fault(g, "oob"), mem[t])
                   ELSE Ends(t, Returned(Wrote(g, resPtrPtr, 4), MPI_SUCCESS),
                             Store32(mem[t], resPtrPtr, mappedWasmPtr))

\* An MPI_Cart_create that allocates the new descriptor and leaves it empty:
\* C15 tells it from the real one by the id of the new descriptor.
MPI_Cart_create_noCopy(t, commOld, ndims, dims, periods, reorder, newCommPtrPtr) ==
    /\ pc[t] = "idle"
    /\ LET c == Call(t, "MPI_Cart_create",
                     <<commOld, ndims, dims, periods, reorder, newCommPtrPtr>>)
           pageAlignedSize == roundUpToWasmPageAligned(4)
           mappedWasmPtr == memSize[t]
           sz == memSize[t] + pageAlignedSize
           g == Grew(c, pageAlignedSize)
           m1 == Store32(mem[t], newCommPtrPtr, mappedWasmPtr)
           g1 == Wrote(g, newCommPtrPtr, 4)
           new == Load32(m1, newCommPtrPtr)
       IN  IF ~ctx[t].live THEN Local(t, Fault(c, "segv"), mem[t])
           ELSE IF growMemoryRefuses(t, pageAlignedSize) THEN Local(t, Fault(c, "throw"), mem[t])
           ELSE /\ Growing(t, pageAlignedSize)
                /\ IF ~InBounds(sz, newCommPtrPtr, 4) THEN Ends(t, Fault(g, "oob"), mem[t])
                   ELSE IF ~InBounds(sz, commOld, 4) THEN Ends(t, Fault(g1, "oob"), m1)
                   ELSE IF ~InBounds(sz, new, 4) THEN Ends(t, Fault(g1, "oob"), m1)
                   ELSE Ends(t, Returned(g1, MPI_SUCCESS), m1)

\* sizeof(faabric_communicator_t): one int.
MPI_Cart_create(t, commOld, ndims, dims, periods, reorder, newCommPtrPtr) ==
    /\ pc[t] = "idle"
    /\ LET c == Call(t, "MPI_Cart_create",
                     <<commOld, ndims, dims, periods, reorder, newCommPtrPtr>>)
           pageAlignedSize == roundUpToWasmPageAligned(4)
           mappedWasmPtr == memSize[t]
           sz == memSize[t] + pageAlignedSize
           g == Grew(c, pageAlignedSize)
           m1 == Store32(mem[t], newCommPtrPtr, mappedWasmPtr)
           g1 == Wrote(g, newCommPtrPtr, 4)
           new == Load32(m1, newCommPtrPtr)
       IN  IF ~ctx[t].live THEN Local(t, Fault(c, "segv"), mem[t])
           ELSE IF growMemoryRefuses(t, pageAlignedSize) THEN Local(t, Fault(c, "throw"), mem[t])
           ELSE /\ Growing(t, pageAlignedSize)
                /\ IF ~InBounds(sz, newCommPtrPtr, 4) THEN Ends(t, Fault(g, "oob"), mem[t])
                   ELSE IF ~InBounds(sz, commOld, 4) THEN Ends(t, Fault(g1, "oob"), m1)
                   ELSE IF ~InBounds(sz, new, 4) THEN Ends(t, Fault(g1, "oob"), m1)
                   ELSE Ends(t, Returned(Wrote(g1, new, 4), MPI_SUCCESS),
                             Store32(m1, new, Load32(m1, commOld)))

\* The fixed two-dimensional grid of a world of the given size: the most
\* nearly square factorisation, rows first.
GridDims(size) ==
    LET D == {a \in 1 .. size : size % a = 0 /\ a * a <= size}
        rows == CHOOSE a \in D : \A b \in D : b <= a
    IN  <<rows, size \div rows>>

getRankFromCoords(size, c0, c1) == c0 * GridDims(size)[2] + c1

\* The ranks a shift by disp along direction arrives from and at.
shiftCartesianCoords(size, rank, direction, disp) ==
    LET d == GridDims(size)
        c0 == rank \div d[2]
        c1 == rank % d[2]
        at(x) == IF direction = 0 THEN getRankFromCoords(size, (c0 + x) % d[1], c1)
                 ELSE IF direction = 1 THEN getRankFromCoords(size, c0, (c1 + x) % d[2])
                 ELSE rank
    IN  <<at(-disp), at(disp)>>

MPI_Cart_rank(t, comm, coords, rankPtr) ==
    /\ pc[t] = "idle"
    /\ LET c == Call(t, "MPI_Cart_rank", <<comm, coords, rankPtr>>)
           f == FirstFailure(<<Live(t), Ref(t, coords, 4 * MPI_CART_MAX_DIMENSIONS)>>)
           d == Delegated(Viewed(c, coords, 4 * MPI_CART_MAX_DIMENSIONS),
                          "getRankFromCoords", <<coords>>)
           rank == getRankFromCoords(worlds[ctx[t].worldId].size,
                                     Load32(mem[t], coords), Load32(mem[t], coords + 4))
       IN  IF f # "ok" THEN Local(t, Fault(c, f), mem[t])
           ELSE IF ~InBounds(memSize[t], rankPtr, 4) THEN Local(t, Fault(d, "oob"), mem[t])
           ELSE Local(t, Returned(Wrote(d, rankPtr, 4), MPI_SUCCESS),
                      writeMpiResult(mem[t], rankPtr, rank))

\* MpiWorld::getCartesianRank, handed the rank, maxdims and the three arrays:
\* the memory it leaves and the ranges it wrote.  It fills the first
\* MPI_CART_MAX_DIMENSIONS entries of each array with the grid, periodic in
\* both directions, and the rank's coordinates in it, and leaves the entries
\* after them, whatever maxdims is.
getCartesianRank(m, size, rank, maxdims, dims, periods, coords) ==
    LET g == GridDims(size)
        n == 4 * MPI_CART_MAX_DIMENSIONS
        m1 == Store32(Store32(m, dims, g[1]), dims + 4, g[2])
        m2 == Store32(Store32(m1, periods, 1), periods + 4, 1)
        m3 == Store32(Store32(m2, coords, rank \div g[2]), coords + 4, rank % g[2])
    IN  [mem |-> m3, writes |-> <<<<dims, n>>, <<periods, n>>, <<coords, n>>>>]

\* An MPI_Cart_get that tests maxdims after it has resolved the arrays: C14
\* tells it from the real one on a thread without a context.
MPI_Cart_get_lateCheck(t, comm, maxdims, dims, periods, coords) ==
    /\ pc[t] = "idle"
    /\ LET c == Call(t, "MPI_Cart_get", <<comm, maxdims, dims, periods, coords>>)
           f == FirstFailure(<<Live(t), Ref(t, dims, SatMul(4, maxdims)),
                               Ref(t, periods, SatMul(4, maxdims)), Ref(t, coords, SatMul(4, maxdims)),
                               IF maxdims < MPI_CART_MAX_DIMENSIONS THEN "throw" ELSE "ok">>)
           v == Viewed(Viewed(Viewed(c, dims, SatMul(4, maxdims)), periods, SatMul(4, maxdims)),
                       coords, SatMul(4, maxdims))
           d == Delegated(v, "getCartesianRank", <<ctx[t].rank, maxdims, dims, periods, coords>>)
           e == getCartesianRank(mem[t], worlds[ctx[t].worldId].size, ctx[t].rank, maxdims,
                                 dims, periods, coords)
       IN  IF f # "ok" THEN Local(t, Fault(c, f), mem[t])
           ELSE Local(t, Returned([d EXCEPT !.writes = @ \o e.writes], MPI_SUCCESS), e.mem)

\* MPI_Cart_get: the test of maxdims, the three arrays of maxdims entries,
\* the engine's getCartesianRank on them.  The handler writes nothing itself.
MPI_Cart_get(t, comm, maxdims, dims, periods, coords) ==
    /\ pc[t] = "idle"
    /\ LET c == Call(t, "MPI_Cart_get", <<comm, maxdims, dims, periods, coords>>)
           f == FirstFailure(<<IF maxdims < MPI_CART_MAX_DIMENSIONS THEN "throw" ELSE "ok",
                               Live(t), Ref(t, dims, SatMul(4, maxdims)),
                               Ref(t, periods, SatMul(4, maxdims)), Ref(t, coords, SatMul(4, maxdims))>>)
           v == Viewed(Viewed(Viewed(c, dims, SatMul(4, maxdims)), periods, SatMul(4, maxdims)),
                       coords, SatMul(4, maxdims))
           d == Delegated(v, "getCartesianRank", <<ctx[t].rank, maxdims, dims, periods, coords>>)
           e == getCartesianRank(mem[t], worlds[ctx[t].worldId].size, ctx[t].rank, maxdims,
                                 dims, periods, coords)
       IN  IF f # "ok" THEN Local(t, Fault(c, f), mem[t])
           ELSE Local(t, Returned([d EXCEPT !.writes = @ \o e.writes], MPI_SUCCESS), e.mem)

MPI_Cart_shift(t, comm, direction, disp, sourceRank, destRank) ==
    /\ pc[t] = "idle"
    /\ LET c == Call(t, "MPI_Cart_shift", <<comm, direction, disp, sourceRank, destRank>>)
           d == Delegated(c, "shiftCartesianCoords", <<ctx[t].rank, direction, disp>>)
           r == shiftCartesianCoords(worlds[ctx[t].worldId].size, ctx[t].rank, direction, disp)
           m1 == writeMpiResult(mem[t], sourceRank, r[1])
       IN  IF ~ctx[t].live THEN Local(t, Fault(c, "segv"), mem[t])
           ELSE IF ~InBounds(memSize[t], sourceRank, 4) THEN Local(t, Fault(d, "oob"), mem[t])
           ELSE IF ~InBounds(memSize[t], destRank, 4)
                THEN Local(t, Fault(Wrote(d, sourceRank, 4), "oob"), m1)
           ELSE Local(t, Returned(Wrote(Wrote(d, sourceRank, 4), destRank, 4), MPI_SUCCESS),
                      writeMpiResult(m1, destRank, r[2]))

\* MPI_Wtime returns the engine's clock, not a status code.
MPI_Wtime(t) ==
    /\ pc[t] = "idle"
    /\ LET c == Call(t, "MPI_Wtime", <<>>)
       IN  IF ~ctx[t].live THEN Local(t, Fault(c, "segv"), mem[t])
           ELSE Local(t, [Delegated(c, "getWTime", <<>>) EXCEPT !.outcome = "value"], mem[t])

\* ------------------------------------------- the engine's suspending calls
\* The engine call a suspended call waits in.
EngineCall(c) == c.eng[Len(c.eng)]

CollFns == {"broadcast", "barrier", "scatter", "gather", "allGather", "reduce",
            "allReduce", "scan", "allToAll"}

\* The status record the engine fills: MPI_SOURCE, MPI_ERROR and bytesSize
\* are the first, third and fourth int.
WithStatus(m, statusPtr, src, n) ==
    Store32(Store32(Store32(m, statusPtr, src), statusPtr + 8, MPI_SUCCESS),
            statusPtr + 12, n)

\* The suspended call c of thread t comes back with guest memory m.
Resumes(t, c, m) ==
    /\ Ends(t, c, m)
    /\ UNCHANGED <<running, FAABRIC_IN_PLACE, endpointHost, msg, executingContext, ctx, memSize, growths>>

\* Message i is delivered into the buffer at buf of thread t, which the
\* engine takes to hold cap bytes; hasStatus tells whether a status is filled.
Delivers(t, c, i, buf, cap, hasStatus, statusPtr, q, rs) ==
    LET k == queues[i]
        n == Len(k.data)
        m1 == StoreBytes(mem[t], buf, k.data)
        c1 == Wrote(c, buf, n)
    IN  IF n > cap
        THEN /\ Resumes(t, Fault(c, "engine"), mem[t])
             /\ UNCHANGED <<queues, requests>>
        ELSE IF ~InBounds(memSize[t], buf, n)
        THEN /\ Resumes(t, Fault(c, "segv"), mem[t])
             /\ UNCHANGED <<queues, requests>>
        ELSE /\ queues' = q
             /\ requests' = rs
             /\ IF hasStatus
                THEN Resumes(t, Returned(Wrote(c1, statusPtr, 16), MPI_SUCCESS),
                             WithStatus(m1, statusPtr, k.src, n))
                ELSE Resumes(t, Returned(c1, MPI_SUCCESS), m1)

\* recv and sendRecv come back once a message from the source is there.
RecvReturns(t) ==
    /\ pc[t] = "blocked"
    /\ WorldOk(ctx[t].worldId)
    /\ LET c == pending[t]
           e == EngineCall(c)
       IN  /\ e.fn \in {"recv", "sendRecv"}
           /\ LET src == IF e.fn = "recv" THEN e.a[1] ELSE e.a[8]
                  buf == IF e.fn = "recv" THEN e.a[3] ELSE e.a[5]
                  cap == IF e.fn = "recv" THEN SatMul(e.a[5], e.a[4]) ELSE SatMul(e.a[6], e.a[7])
                  st == IF e.fn = "recv" THEN e.a[6] ELSE e.a[10]
                  i == FirstMsg(ctx[t].worldId, src, ctx[t].rank)
              IN  /\ i # 0
                  /\ Delivers(t, c, i, buf, cap, TRUE, st, RemoveAt(queues, i),
                              AfterDelivery(queues[i]))
    /\ UNCHANGED worlds

\* probe comes back once a message from the source is there, and leaves it.
ProbeReturns(t) ==
    /\ pc[t] = "blocked"
    /\ WorldOk(ctx[t].worldId)
    /\ LET c == pending[t]
           e == EngineCall(c)
           i == FirstMsg(ctx[t].worldId, e.a[1], ctx[t].rank)
       IN  /\ e.fn = "probe"
           /\ i # 0
           /\ Resumes(t, Returned(Wrote(c, e.a[3], 16), MPI_SUCCESS),
                      WithStatus(mem[t], e.a[3], queues[i].src, Len(queues[i].data)))
    /\ UNCHANGED engineVars

\* awaitAsyncRequest comes back once the request is complete, and drops it:
\* a send when its message has been received, a receive when a message
\* from its source is there, which is then delivered into its buffer.
WaitReturns(t) ==
    /\ pc[t] = "blocked"
    /\ WorldOk(ctx[t].worldId)
    /\ LET c == pending[t]
           e == EngineCall(c)
       IN  /\ e.fn = "awaitAsyncRequest"
           /\ \E r \in requests :
                /\ r.id = e.a[1] /\ r.w = ctx[t].worldId /\ r.rank = ctx[t].rank
                /\ IF r.kind = "send"
                   THEN /\ r.done
                        /\ requests' = requests \ {r}
                        /\ Resumes(t, Returned(c, MPI_SUCCESS), mem[t])
                        /\ UNCHANGED queues
                   ELSE LET i == FirstMsg(r.w, r.peer, r.rank)
                        IN  /\ i # 0
                            /\ Delivers(t, c, i, r.buf, r.n, FALSE, 0, RemoveAt(queues, i),
                                        AfterDelivery(queues[i]) \ {r})
    /\ UNCHANGED worlds

\* The scheduler starts the instance of a rank above 0 of world w on thread u:
\* it names the world in the record the instance will read in MPI_Init.
SchedulerChains(w, u) ==
    /\ WorldOk(w)
    /\ u \in running
    /\ pc[u] = "idle"
    /\ ~ctx[u].live
    /\ msg[u].mpirank > 0
    /\ msg[u].mpiworldid = 0
    /\ msg' = [msg EXCEPT ![u].mpiworldid = w]
    /\ UNCHANGED <<running, FAABRIC_IN_PLACE, endpointHost, executingContext, ctx, memSize, mem, growths, pc,
                   worlds, queues, requests, pending, last, fd>>

\* Rank r of world w is the rank of a thread of this run.
Hosted(w, r) ==
    \E t \in running : ctx[t].live /\ ctx[t].worldId = w /\ ctx[t].rank = r

\* Every rank of the world has arrived at the collective: all are released.
\* The ranks no thread of this run hosts leave at once.
EngineRelease(w) ==
    /\ WorldOk(w)
    /\ \A r \in DOMAIN worlds[w].coll : worlds[w].coll[r] = "in"
    /\ worlds' = [worlds EXCEPT
                     ![w].coll = [r \in DOMAIN @ |->
                                    IF Hosted(w, r) THEN "released" ELSE "out"],
                     ![w].left = [r \in DOMAIN @ |->
                                    IF Hosted(w, r) THEN @[r] ELSE @[r] + 1]]
    /\ UNCHANGED <<running, FAABRIC_IN_PLACE, endpointHost, msg, executingContext, ctx, memSize, mem, growths, pc,
                   queues, requests, pending, last, fd>>

CollectiveReturns(t) ==
    /\ pc[t] = "blocked"
    /\ WorldOk(ctx[t].worldId)
    /\ EngineCall(pending[t]).fn \in CollFns
    /\ worlds[ctx[t].worldId].coll[ctx[t].rank] = "released"
    /\ worlds' = [worlds EXCEPT ![ctx[t].worldId].coll[ctx[t].rank] = "out",
                                ![ctx[t].worldId].left[ctx[t].rank] = @ + 1]
    /\ Resumes(t, Returned(pending[t], MPI_SUCCESS), mem[t])
    /\ UNCHANGED <<queues, requests>>

\* The world of a suspended call has been destroyed: the call fails.
EngineRaises(t) ==
    /\ pc[t] = "blocked"
    /\ ~WorldOk(ctx[t].worldId)
    /\ Resumes(t, Fault(pending[t], "engine"), mem[t])
    /\ UNCHANGED engineVars

\* ------------------------------------------- ranks hosted outside this run
\* The instances of the ranks that no thread of the run hosts act on the
\* engine alone: they send, receive, arrive at collectives, finalize.
PeerPayloads == {<<7, 0, 0, 0, 9, 1, 0, 0>>, <<1, 2, 3, 4, 5, 6>>}

PeerFrame == UNCHANGED <<running, FAABRIC_IN_PLACE, endpointHost, msg, executingContext, ctx, memSize, mem, growths, pc,
                         pending, last, fd>>

PeerSend(w, p, dst, data) ==
    /\ WorldOk(w) /\ RankOk(w, p) /\ p \notin running /\ dst \in running
    /\ Len(queues) < MaxQueue
    /\ queues' = Append(queues, [w |-> w, src |-> p, dst |-> dst, data |-> data,
                                 async |-> FALSE, id |-> 0])
    /\ UNCHANGED <<worlds, requests>>
    /\ PeerFrame

PeerRecv(w, p, src) ==
    /\ WorldOk(w) /\ RankOk(w, p) /\ p \notin running
    /\ FirstMsg(w, src, p) # 0
    /\ queues' = RemoveAt(queues, FirstMsg(w, src, p))
    /\ requests' = AfterDelivery(queues[FirstMsg(w, src, p)])
    /\ UNCHANGED worlds
    /\ PeerFrame

PeerArrive(w, p) ==
    /\ WorldOk(w) /\ RankOk(w, p) /\ p \notin running
    /\ worlds[w].coll[p] = "out"
    /\ worlds[w].entered[p] < MaxRounds
    /\ worlds' = [worlds EXCEPT ![w].coll[p] = "in", ![w].entered[p] = @ + 1]
    /\ UNCHANGED <<queues, requests>>
    /\ PeerFrame

PeerFinalize(w, p) ==
    /\ WorldOk(w) /\ RankOk(w, p) /\ p \notin running
    /\ worlds' = [worlds EXCEPT ![w].destroyed = TRUE]
    /\ UNCHANGED <<queues, requests>>
    /\ PeerFrame

\* ------------------------------------------ storage::FileDescriptor
\* The descriptor as its test uses it.  A record f is the descriptor with the
\* call made on it last (op, args), what that call returned (ret), the
\* position the last seek reported (actual) and the entry the last iterNext
\* or whole copy into a buffer handed out (ent).  dirContents is the listing
\* of the directory it was opened on, returned the paths handed out since the
\* iterator was last reset, backs the number of iterBack calls since the last
\* entry was handed out, straight whether there has been no iterBack since
\* the last reset.
tell(f) == f.position

\* A seek that takes every offset as absolute: C22 tells it from the real one
\* on a relative seek from a position other than 0.
seek_alwaysAbsolute(f, offset, whence) ==
    [f EXCEPT !.position = offset, !.actual = offset,
              !.op = "seek", !.args = <<offset, whence>>, !.ret = 0]

seek(f, offset, whence) ==
    LET p == IF whence = "__WASI_WHENCE_CUR" THEN f.position + offset ELSE offset
    IN  [f EXCEPT !.position = p, !.actual = p,
                  !.op = "seek", !.args = <<offset, whence>>, !.ret = 0]

iterStarted(f) == f.dirContentsLoaded
iterFinished(f) == f.dirContentsLoaded /\ f.dirContentsIter >= Len(f.dirContents)

\* An iterBack that leaves the iterator where it is: C23 tells it from the
\* real one at the iterNext that follows.
iterBack_stays(f) ==
    [f EXCEPT !.op = "iterBack", !.args = <<>>, !.backs = @ + 1, !.straight = FALSE]

iterBack(f) ==
    [f EXCEPT !.dirContentsIter = @ - 1, !.op = "iterBack", !.args = <<>>, !.backs = @ + 1,
              !.straight = FALSE]

iterNext(f) ==
    LET e == [next |-> f.dirContentsIter + 1, path |-> f.dirContents[f.dirContentsIter + 1]]
    IN  [f EXCEPT !.dirContentsLoaded = TRUE, !.dirContentsIter = @ + 1, !.ent = e,
                  !.returned = Append(@, e.path), !.backs = 0, !.op = "iterNext",
                  !.args = <<>>]

iterReset(f) ==
    [f EXCEPT !.dirContentsLoaded = FALSE, !.dirContentsIter = 0, !.returned = <<>>,
              !.backs = 0, !.straight = TRUE, !.op = "iterReset", !.args = <<>>]

\* The loop of copyDirentsToWasiBuffer with bytesCopied bytes in the buffer:
\* while there is room and the iterator has not finished it takes the next
\* entry, a __wasi_dirent_t followed by the path (the name k stands for a
\* path of k characters).  An entry that does not fit whole fills the rest
\* of the buffer and is put back, to be the first of the next call.
RECURSIVE copyDirents(_, _, _)
copyDirents(f, bufferLen, bytesCopied) ==
    IF bytesCopied >= bufferLen \/ iterFinished(f) THEN [f EXCEPT !.ret = bytesCopied]
    ELSE LET g == iterNext(f)
             size == WasiDirentSize + g.ent.path
         IN  IF bytesCopied + size <= bufferLen
             THEN copyDirents(g, bufferLen, bytesCopied + size)
             ELSE [iterBack(g) EXCEPT !.ret = bufferLen, !.ent = f.ent, !.returned = f.returned,
                                      !.backs = f.backs, !.straight = f.straight]

copyDirentsToWasiBuffer(f, bufferLen) ==
    [copyDirents(f, bufferLen, 0) EXCEPT !.op = "copyDirentsToWasiBuffer", !.args = <<bufferLen>>]

\* What the calls on a descriptor leave alone.
FdFrame == UNCHANGED <<running, FAABRIC_IN_PLACE, endpointHost, msg, executingContext, ctx, memSize, mem, growths, pc,
                       worlds, queues, requests, pending, last>>

\* FileSystem::openFileDescriptor on a file: a new descriptor.
OpenFile ==
    /\ fd' = [NoFd EXCEPT !.kind = "file", !.op = "openFileDescriptor"]
    /\ FdFrame

\* FileSystem::openFileDescriptor with __WASI_O_DIRECTORY on a directory whose
\* listing is dir.
OpenDirectory(dir) ==
    /\ fd' = [NoFd EXCEPT !.kind = "dir", !.dirContents = dir, !.op = "openFileDescriptor"]
    /\ FdFrame

\* A seek to a position of the file's range.
Seek(offset, whence) ==
    /\ fd.kind = "file"
    /\ seek(fd, offset, whence).position \in 0 .. MaxPosition
    /\ fd' = seek(fd, offset, whence)
    /\ FdFrame

Tell ==
    /\ fd.kind = "file"
    /\ fd' = [fd EXCEPT !.op = "tell", !.args = <<>>, !.ret = tell(fd)]
    /\ FdFrame

\* The test calls iterNext while the iterator is not finished.
IterNext ==
    /\ fd.kind = "dir"
    /\ ~iterFinished(fd)
    /\ fd' = iterNext(fd)
    /\ FdFrame

\* iterBack after an entry has been returned.
IterBack ==
    /\ fd.kind = "dir"
    /\ fd.dirContentsIter > 0
    /\ fd.backs < MaxBacks
    /\ Len(fd.returned) < MaxEntries + MaxBacks
    /\ fd' = iterBack(fd)
    /\ FdFrame

IterReset ==
    /\ fd.kind = "dir"
    /\ fd' = iterReset(fd)
    /\ FdFrame

\* A copy of the entries into a guest buffer of bufferLen bytes.
CopyDirentsToWasiBuffer(bufferLen) ==
    /\ fd.kind = "dir"
    /\ fd' = copyDirentsToWasiBuffer(fd, bufferLen)
    /\ FdFrame

\* ------------------------------------------------------ the guest's calls
\* The argument lists a guest passes: a well-formed call and every list
\* that differs from it in one argument.
Vary(base, alts) ==
    {base} \cup UNION {{[base EXCEPT ![i] = v] : v \in alts[i]} : i \in DOMAIN base}

Other(t) == (t + 1) % NThreads
Edge(t) == memSize[t] - 4
BadRanks(t) == {NThreads}
BadComms == {G.commOther, Oob}

SendArgs(t) ==
    Vary(<<G.buf, 2, G.dtInt, Other(t), 0, G.commWorld>>,
         <<{Edge(t)}, {}, {Oob}, BadRanks(t), {5}, BadComms>>)
IsendArgs(t) ==
    Vary(<<G.buf, 2, G.dtInt, Other(t), 0, G.commWorld, G.req>>,
         <<{Edge(t)}, {}, {}, BadRanks(t), {5}, BadComms, {G.req + 4, Oob}>>)
RecvArgs(t) ==
    Vary(<<G.buf2, 2, G.dtInt, Other(t), 0, G.commWorld, G.status>>,
         <<{Edge(t)}, {1}, {}, BadRanks(t), {5}, BadComms, {Oob}>>)
IrecvArgs(t) ==
    Vary(<<G.buf2, 2, G.dtInt, Other(t), 0, G.commWorld, G.req>>,
         <<{Edge(t)}, {1}, {}, BadRanks(t), {5}, BadComms, {G.req + 4, Oob}>>)
SendrecvArgs(t) ==
    Vary(<<G.buf, 2, G.dtInt, Other(t), 0, G.buf2, 2, G.dtInt, Other(t), 0,
           G.commWorld, G.status>>,
         <<{Edge(t)}, {1073741824}, {}, {t}, {5}, {Edge(t)}, {1073741824}, {G.dtByte}, {t}, {},
           BadComms, {Oob}>>)
WaitArgs == Vary(<<G.req, G.status>>, <<{G.req + 4, Oob}, {0}>>)
ProbeArgs(t) ==
    Vary(<<Other(t), 0, G.commWorld, G.status>>, <<BadRanks(t), {5}, BadComms, {Oob}>>)
BcastArgs(t) ==
    Vary(<<G.buf, 2, G.dtInt, 0, G.commWorld>>,
         <<{Edge(t)}, {1073741824}, {G.dtByte}, {NThreads}, BadComms>>)
RootedArgs(t) ==
    Vary(<<G.buf, 2, G.dtInt, G.buf2, 2, G.dtInt, 0, G.commWorld>>,
         <<{FAABRIC_IN_PLACE, FAABRIC_IN_PLACE + 256, Edge(t)}, {1073741824}, {G.dtByte}, {Edge(t)}, {1}, {}, {NThreads},
           BadComms>>)
UnrootedArgs(t) ==
    Vary(<<G.buf, 2, G.dtInt, G.buf2, 2, G.dtInt, G.commWorld>>,
         <<{FAABRIC_IN_PLACE, FAABRIC_IN_PLACE + 256, Edge(t)}, {1073741824}, {G.dtByte}, {Edge(t)}, {1}, {}, BadComms>>)
ReduceArgs(t) ==
    Vary(<<G.buf, G.buf2, 2, G.dtInt, G.op, 0, G.commWorld>>,
         <<{FAABRIC_IN_PLACE, FAABRIC_IN_PLACE + 256, Edge(t)}, {Edge(t)}, {1, 1073741824}, {G.dtByte}, {Oob}, {NThreads},
           BadComms>>)
AllreduceArgs(t) ==
    Vary(<<G.buf, G.buf2, 2, G.dtInt, G.op, G.commWorld>>,
         <<{FAABRIC_IN_PLACE, FAABRIC_IN_PLACE + 256, Edge(t)}, {Edge(t)}, {1}, {G.dtByte}, {Oob}, BadComms>>)
QueryArgs == Vary(<<G.commWorld, G.res>>, <<BadComms, {Oob}>>)
GetCountArgs == Vary(<<G.status, G.dtInt, G.res>>, <<{Oob}, {Oob, G.res}, {Oob}>>)
AllocArgs ==
    Vary(<<4, G.infoNull, G.ptrSlot>>,
         <<{0, WASM_BYTES_PER_PAGE, WASM_BYTES_PER_PAGE + 1, MaxPages * WASM_BYTES_PER_PAGE,
            -1, -WASM_BYTES_PER_PAGE},
           {G.infoOther, Oob},
           {InitialPages * WASM_BYTES_PER_PAGE, Oob}>>)
CartCreateArgs ==
    Vary(<<G.commWorld, 2, G.dims, G.periods, 0, G.ptrSlot>>,
         <<BadComms, {-1, 3}, {Oob}, {Oob}, {1},
           {G.commWorld, InitialPages * WASM_BYTES_PER_PAGE, Oob}>>)
CartRankArgs == Vary(<<G.commWorld, G.coords, G.res>>, <<BadComms, {Oob}, {Oob}>>)
\* With room for two entries per array, and with three arrays of more entries
\* that do not overlap (the third entry of the first holds the 11 of G.buf).
CartGetArgs ==
    Vary(<<G.commWorld, 2, G.dims, G.periods, G.coords>>,
         <<BadComms, {-1, 0, 1}, {Oob}, {Edge(0)}, {}>>)
    \cup {<<G.commWorld, n, G.periods, G.buf2, G.name>> : n \in {3, 5, 4 * WASM_BYTES_PER_PAGE}}
CartShiftArgs ==
    Vary(<<G.commWorld, 0, 1, G.res, G.res + 4>>, <<BadComms, {1}, {}, {Oob}, {Oob}>>)
NameArgs(t) == Vary(<<G.name, 16>>, <<{Edge(t), Edge(t) + 1, Oob}, {2}>>)
Words == {0, G.buf}

Lifecycle(t) ==
    \/ \E a \in Words : MPI_Init(t, a, a)
    \/ MPI_Finalize(t)
    \/ \E a \in Words : MPI_Abort(t, a, 1)

Queries(t) ==
    \/ \E a \in QueryArgs : MPI_Comm_size(t, a[1], a[2])
    \/ \E a \in QueryArgs : MPI_Comm_rank(t, a[1], a[2])
    \/ \E a \in GetCountArgs : MPI_Get_count(t, a[1], a[2], a[3])
    \/ \E a \in Vary(<<G.dtInt, G.res>>, <<{G.dtByte, Oob}, {Oob}>>) : MPI_Type_size(t, a[1], a[2])
    \/ \E a \in NameArgs(t) : MPI_Get_processor_name(t, a[1], a[2])
    \/ MPI_Wtime(t)

InertCalls(t) ==
    \/ \E a \in Words \cup BadComms : MPI_Comm_free(t, a)
    \/ \E a \in Words \cup {Oob} : MPI_Free_mem(t, a)
    \/ \E a \in Vary(<<2, G.dtInt, G.ptrSlot>>, <<{-1}, {Oob}, {0, Oob}>>) :
           MPI_Type_contiguous(t, a[1], a[2], a[3])
    \/ \E a \in Words \cup {Oob} : MPI_Type_commit(t, a)

UnsupportedCalls(t) ==
    \/ \E a \in Words : MPI_Get_version(t, a, a)
    \/ \E a \in Words : MPI_Comm_dup(t, G.commWorld, a)
    \/ \E a \in Words : MPI_Comm_split(t, G.commWorld, 0, 0, a)
    \/ \E a \in Words : MPI_Comm_c2f(t, a)
    \/ \E a \in Words : MPI_Comm_f2c(t, a)
    \/ \E a \in Words : MPI_Rsend(t, a, 2, G.dtInt, Other(t), 0, G.commWorld)
    \/ \E a \in Words : MPI_Waitall(t, 1, a, G.status)
    \/ \E a \in Words : MPI_Waitany(t, 1, a, G.res, G.status)
    \/ \E a \in Words : MPI_Allgatherv(t, a, 2, G.dtInt, G.buf2, G.res, G.res, G.dtInt,
                                        G.commWorld)
    \/ \E a \in Words : MPI_Reduce_scatter(t, a, G.buf2, G.res, G.dtInt, G.op, G.commWorld)
    \/ \E a \in Words : MPI_Alltoallv(t, a, G.res, G.res, G.dtInt, G.buf2, G.res, G.res,
                                       G.dtInt, G.commWorld)
    \/ \E a \in Words : MPI_Op_create(t, a, 1, G.op)
    \/ \E a \in Words : MPI_Op_free(t, a)
    \/ \E a \in Words : MPI_Win_create(t, a, 8, 4, G.infoNull, G.commWorld, G.ptrSlot)
    \/ \E a \in Words : MPI_Win_fence(t, 0, a)
    \/ \E a \in Words : MPI_Get(t, a, 2, G.dtInt, Other(t), 0, 2, G.dtInt, G.ptrSlot)
    \/ \E a \in Words : MPI_Put(t, a, 2, G.dtInt, Other(t), 0, 2, G.dtInt, G.ptrSlot)
    \/ \E a \in Words : MPI_Win_free(t, a)
    \/ \E a \in Words : MPI_Win_get_attr(t, a, 0, G.ptrSlot, G.res)
    \/ \E a \in Words : MPI_Request_free(t, a)
    \/ \E a \in Words : MPI_Type_free(t, a)

Blocking(t) ==
    \/ \E a \in SendArgs(t) : MPI_Send(t, a[1], a[2], a[3], a[4], a[5], a[6])
    \/ \E a \in RecvArgs(t) : MPI_Recv(t, a[1], a[2], a[3], a[4], a[5], a[6], a[7])
    \/ \E a \in SendrecvArgs(t) :
           MPI_Sendrecv(t, a[1], a[2], a[3], a[4], a[5], a[6], a[7], a[8], a[9], a[10],
                        a[11], a[12])
    \/ \E a \in ProbeArgs(t) : MPI_Probe(t, a[1], a[2], a[3], a[4])

Asynchronous(t) ==
    \/ \E a \in IsendArgs(t) : MPI_Isend(t, a[1], a[2], a[3], a[4], a[5], a[6], a[7])
    \/ \E a \in IrecvArgs(t) : MPI_Irecv(t, a[1], a[2], a[3], a[4], a[5], a[6], a[7])
    \/ \E a \in WaitArgs : MPI_Wait(t, a[1], a[2])

Collectives(t) ==
    \/ \E a \in BcastArgs(t) : MPI_Bcast(t, a[1], a[2], a[3], a[4], a[5])
    \/ \E a \in BadComms \cup {G.commWorld} : MPI_Barrier(t, a)
    \/ \E a \in RootedArgs(t) : MPI_Scatter(t, a[1], a[2], a[3], a[4], a[5], a[6], a[7], a[8])
    \/ \E a \in RootedArgs(t) : MPI_Gather(t, a[1], a[2], a[3], a[4], a[5], a[6], a[7], a[8])
    \/ \E a \in UnrootedArgs(t) : MPI_Allgather(t, a[1], a[2], a[3], a[4], a[5], a[6], a[7])
    \/ \E a \in ReduceArgs(t) : MPI_Reduce(t, a[1], a[2], a[3], a[4], a[5], a[6], a[7])
    \/ \E a \in AllreduceArgs(t) : MPI_Allreduce(t, a[1], a[2], a[3], a[4], a[5], a[6])
    \/ \E a \in AllreduceArgs(t) : MPI_Scan(t, a[1], a[2], a[3], a[4], a[5], a[6])
    \/ \E a \in UnrootedArgs(t) : MPI_Alltoall(t, a[1], a[2], a[3], a[4], a[5], a[6], a[7])

MemoryCalls(t) ==
    \/ \E a \in AllocArgs : MPI_Alloc_mem(t, a[1], a[2], a[3])
    \/ \E a \in CartCreateArgs : MPI_Cart_create(t, a[1], a[2], a[3], a[4], a[5], a[6])
    \/ \E a \in CartRankArgs : MPI_Cart_rank(t, a[1], a[2], a[3])
    \/ \E a \in CartGetArgs : MPI_Cart_get(t, a[1], a[2], a[3], a[4], a[5])
    \/ \E a \in CartShiftArgs : MPI_Cart_shift(t, a[1], a[2], a[3], a[4], a[5])

BlockingEngine ==
    \/ \E t \in Threads : RecvReturns(t)
    \/ \E t \in Threads : ProbeReturns(t)
    \/ \E t \in Threads : EngineRaises(t)

AsynchronousEngine ==
    \/ \E t \in Threads : WaitReturns(t)
    \/ \E t \in Threads : EngineRaises(t)

CollectiveEngine ==
    \/ \E t \in Threads : CollectiveReturns(t)
    \/ \E t \in Threads : EngineRaises(t)
    \/ \E w \in 1 .. MaxWorlds : EngineRelease(w)

PointToPointPeers ==
    \E w \in 1 .. MaxWorlds : \E p \in Threads :
        \/ \E dst \in Threads : \E data \in PeerPayloads : PeerSend(w, p, dst, data)
        \/ \E src \in Threads : PeerRecv(w, p, src)
        \/ PeerFinalize(w, p)

CollectivePeers ==
    \E w \in 1 .. MaxWorlds : \E p \in Threads :
        \/ PeerArrive(w, p)
        \/ PeerFinalize(w, p)

\* ---------------------------------------------------------- specifications
\* The threads of R each host the instance of the rank of their number.  When
\* rank 0 is hosted elsewhere it has created world 1 already and the
\* scheduler has named it in the records of the other instances.
InitWith(R, inPlace, host) ==
    /\ running = R
    /\ FAABRIC_IN_PLACE = inPlace
    /\ endpointHost = host
    /\ msg = [t \in Threads |-> [mpirank |-> t, mpiworldid |-> IF 0 \in R THEN 0 ELSE 1]]
    /\ executingContext = [t \in Threads |-> [worldId |-> 0, rank |-> -1]]
    /\ ctx = [t \in Threads |-> NoCtx]
    /\ memSize = [t \in Threads |-> InitialPages * WASM_BYTES_PER_PAGE]
    /\ mem = [t \in Threads |-> InitialImage]
    /\ growths = [t \in Threads |-> 0]
    /\ pc = [t \in Threads |-> IF t \in R THEN "idle" ELSE "absent"]
    /\ worlds = IF 0 \in R THEN <<>> ELSE <<NewWorld>>
    /\ queues = <<>>
    /\ requests = {}
    /\ pending = [t \in Threads |-> NoCall]
    /\ last = NoCall
    /\ fd = NoFd

\* One instance under test, of any rank, in any build; the other ranks are
\* peers.
Init == \E t \in Threads : \E v \in InPlaceValues : InitWith({t}, v, EndpointHost)

\* The same in one build, for the calls that never look at FAABRIC_IN_PLACE.
InitOneBuild == \E t \in Threads : InitWith({t}, -1, EndpointHost)

\* The same under every host identity the configuration may hold.
InitAnyHost == \E t \in Threads : \E host \in Hosts : InitWith({t}, -1, host)

\* The calls that finish inside the handler and leave memory's size alone.
Next ==
    \/ \E t \in Threads : Lifecycle(t)
    \/ \E t \in Threads : Queries(t)
    \/ \E t \in Threads : InertCalls(t)
    \/ \E t \in Threads : UnsupportedCalls(t)

Spec == InitAnyHost /\ [][Next]_vars

\* Allocation and the Cartesian topology.
NextTopo ==
    \/ \E t \in Threads : Lifecycle(t)
    \/ \E t \in Threads : MemoryCalls(t)

SpecTopo == InitOneBuild /\ [][NextTopo]_vars

\* Blocking point-to-point traffic between the instance and its peers.
NextP2P ==
    \/ \E t \in Threads : Lifecycle(t)
    \/ \E t \in Threads : Blocking(t)
    \/ \E t \in Threads : \E a \in GetCountArgs : MPI_Get_count(t, a[1], a[2], a[3])
    \/ BlockingEngine
    \/ PointToPointPeers

SpecP2P == InitOneBuild /\ [][NextP2P]_vars

\* Asynchronous requests.
NextAsync ==
    \/ \E t \in Threads : Lifecycle(t)
    \/ \E t \in Threads : Asynchronous(t)
    \/ AsynchronousEngine
    \/ PointToPointPeers

SpecAsync == InitOneBuild /\ [][NextAsync]_vars

\* Collective operations of the instance with its peers.
NextColl ==
    \/ \E t \in Threads : Lifecycle(t)
    \/ \E t \in Threads : Collectives(t)
    \/ CollectiveEngine
    \/ CollectivePeers

SpecColl == Init /\ [][NextColl]_vars

\* Receives of the peers' messages and the count query on the statuses they
\* fill: the blocking receive path on its own.
NextCount ==
    \/ \E t \in Threads : Lifecycle(t)
    \/ \E t \in Threads : \E a \in RecvArgs(t) : MPI_Recv(t, a[1], a[2], a[3], a[4], a[5], a[6], a[7])
    \/ \E t \in Threads : \E a \in GetCountArgs : MPI_Get_count(t, a[1], a[2], a[3])
    \/ \E t \in Threads : RecvReturns(t)
    \/ \E w \in 1 .. MaxWorlds : \E p \in Threads : \E dst \in Threads : \E data \in PeerPayloads : PeerSend(w, p, dst, data)

SpecCount == InitOneBuild /\ [][NextCount]_vars

\* The ranks a message record may declare: unset reads as 0, the scheduler
\* may leave a negative one, and a spawned instance carries its own.
DeclaredRanks == {-1, 0, 1}

\* One instance whose record declares the rank r.  A record of a rank above 0
\* names world 1, which its creator has made already.
InitDeclared ==
    \E t \in Threads : \E r \in DeclaredRanks :
        /\ running = {t}
        /\ FAABRIC_IN_PLACE = -1
        /\ endpointHost = EndpointHost
        /\ msg = [u \in Threads |->
                    [mpirank |-> IF u = t THEN r ELSE 1,
                     mpiworldid |-> IF r <= 0 THEN 0 ELSE 1]]
        /\ executingContext = [u \in Threads |-> [worldId |-> 0, rank |-> -1]]
        /\ ctx = [u \in Threads |-> NoCtx]
        /\ memSize = [u \in Threads |-> InitialPages * WASM_BYTES_PER_PAGE]
        /\ mem = [u \in Threads |-> InitialImage]
        /\ growths = [u \in Threads |-> 0]
        /\ pc = [u \in Threads |-> IF u = t THEN "idle" ELSE "absent"]
        /\ worlds = IF r <= 0 THEN <<>> ELSE <<NewWorld>>
        /\ queues = <<>>
        /\ requests = {}
        /\ pending = [u \in Threads |-> NoCall]
        /\ last = NoCall
        /\ fd = NoFd

\* The lifecycle of an instance of any declared rank, with the queries that
\* read its context and a peer that may finalize the world first.
NextInit ==
    \/ \E t \in Threads : \E a \in Words : \E b \in Words : MPI_Init(t, a, b)
    \/ \E t \in Threads : MPI_Finalize(t)
    \/ \E t \in Threads : \E a \in Words : MPI_Abort(t, a, 1)
    \/ \E t \in Threads : \E a \in QueryArgs : MPI_Comm_size(t, a[1], a[2])
    \/ \E t \in Threads : \E a \in QueryArgs : MPI_Comm_rank(t, a[1], a[2])
    \/ \E w \in 1 .. MaxWorlds : \E p \in Threads : PeerFinalize(w, p)

SpecInit == InitDeclared /\ [][NextInit]_vars

\* Every rank of the world hosted by a thread of this run, in any assignment
\* of the ranks to the threads that a rotation gives.
InitBoth ==
    \E k \in Threads :
        /\ running = Threads
        /\ FAABRIC_IN_PLACE = -1
        /\ endpointHost = EndpointHost
        /\ msg = [t \in Threads |-> [mpirank |-> (t + k) % NThreads, mpiworldid |-> 0]]
        /\ executingContext = [t \in Threads |-> [worldId |-> 0, rank |-> -1]]
        /\ ctx = [t \in Threads |-> NoCtx]
        /\ memSize = [t \in Threads |-> InitialPages * WASM_BYTES_PER_PAGE]
        /\ mem = [t \in Threads |-> InitialImage]
        /\ growths = [t \in Threads |-> 0]
        /\ pc = [t \in Threads |-> "idle"]
        /\ worlds = <<>>
        /\ queues = <<>>
        /\ requests = {}
        /\ pending = [t \in Threads |-> NoCall]
        /\ last = NoCall
        /\ fd = NoFd

\* Thread 0 produces and the other threads consume.  What it sends them and
\* how they receive it: one or two elements of the 4-byte datatype or two of
\* the 1-byte datatype, out of a buffer that nothing writes, into another.
ExchangeShapes == {<<1, G.dtInt>>, <<2, G.dtInt>>, <<2, G.dtByte>>}
ExchangeSends(t) ==
    IF t # 0 THEN {}
    ELSE {<<G.buf, s[1], s[2], msg[u].mpirank, 0, G.commWorld>> :
            s \in ExchangeShapes, u \in Threads \ {0}}
ExchangeRecvs(t) ==
    IF t = 0 THEN {}
    ELSE {<<G.buf2, s[1], s[2], msg[0].mpirank, 0, G.commWorld, G.status>> :
            s \in ExchangeShapes}

NextExchange ==
    \/ \E t \in Threads : MPI_Init(t, 0, 0)
    \/ \E t \in Threads : \E a \in ExchangeSends(t) :
           MPI_Send(t, a[1], a[2], a[3], a[4], a[5], a[6])
    \/ \E t \in Threads : \E a \in ExchangeSends(t) :
           MPI_Isend(t, a[1], a[2], a[3], a[4], a[5], a[6], G.req)
    \/ \E t \in Threads : \E a \in ExchangeRecvs(t) :
           MPI_Recv(t, a[1], a[2], a[3], a[4], a[5], a[6], a[7])
    \/ \E t \in Threads \ {0} : \E d \in {G.dtInt, G.dtByte} :
           MPI_Get_count(t, G.status, d, G.res)
    \/ \E t \in Threads : RecvReturns(t)
    \/ \E w \in 1 .. MaxWorlds : \E u \in Threads : SchedulerChains(w, u)

SpecExchange == InitBoth /\ [][NextExchange]_vars

\* Barriers of the instances of every rank, each on its own thread, with the
\* engine that lets them out.
NextBarrier ==
    \/ \E t \in Threads : MPI_Init(t, 0, 0)
    \/ \E t \in Threads : \E a \in BadComms \cup {G.commWorld} : MPI_Barrier(t, a)
    \/ \E t \in Threads : MPI_Finalize(t)
    \/ \E t \in Threads : CollectiveReturns(t)
    \/ \E t \in Threads : EngineRaises(t)
    \/ \E w \in 1 .. MaxWorlds : EngineRelease(w)
    \/ \E w \in 1 .. MaxWorlds : \E u \in Threads : SchedulerChains(w, u)

SpecBarrier == InitBoth /\ [][NextBarrier]_vars

\* The life cycles of the instances of every rank, each on its own thread,
\* interleaved, with the queries that read each thread's context.
NextThreads ==
    \/ \E t \in Threads : \E a \in Words : MPI_Init(t, a, a)
    \/ \E t \in Threads : MPI_Finalize(t)
    \/ \E t \in Threads : \E a \in BadComms \cup {G.commWorld} : MPI_Abort(t, a, 1)
    \/ \E t \in Threads : \E a \in QueryArgs : MPI_Comm_rank(t, a[1], a[2])
    \/ \E t \in Threads : \E a \in QueryArgs : MPI_Comm_size(t, a[1], a[2])
    \/ \E w \in 1 .. MaxWorlds : \E u \in Threads : SchedulerChains(w, u)

SpecThreads == InitBoth /\ [][NextThreads]_vars

\* Calls that reach the engine and the engine's failures: asynchronous sends
\* and receives and broadcasts of one instance, with ranks the world has not
\* and peers that may destroy the world under it.
NextFail ==
    \/ \E t \in Threads : Lifecycle(t)
    \/ \E t \in Threads : \E a \in IsendArgs(t) : MPI_Isend(t, a[1], a[2], a[3], a[4], a[5], a[6], a[7])
    \/ \E t \in Threads : \E a \in IrecvArgs(t) : MPI_Irecv(t, a[1], a[2], a[3], a[4], a[5], a[6], a[7])
    \/ \E t \in Threads : \E a \in BcastArgs(t) : MPI_Bcast(t, a[1], a[2], a[3], a[4], a[5])
    \/ CollectiveEngine
    \/ CollectivePeers

SpecFail == InitOneBuild /\ [][NextFail]_vars

\* A file descriptor under any sequence of seeks and tells.
Offsets == (0 - MaxPosition) .. MaxPosition
Whences == {"__WASI_WHENCE_CUR", "__WASI_WHENCE_SET"}

NextSeek ==
    \/ OpenFile
    \/ \E offset \in Offsets : \E whence \in Whences : Seek(offset, whence)
    \/ Tell

SpecSeek == InitOneBuild /\ [][NextSeek]_vars

\* A directory descriptor under any sequence of iterator calls and copies
\* into buffers, over every listing of two to MaxEntries distinct names in
\* any order.
Listings ==
    UNION {{d \in [1 .. n -> 1 .. MaxEntries] : \A i, j \in 1 .. n : d[i] = d[j] => i = j}
             : n \in 2 .. MaxEntries}

\* Buffers too short for any entry, for one entry, for two entries and part
\* of a third, and for every entry of the longest listing.
BufferLens ==
    {10, WasiDirentSize + MaxEntries, 3 * WasiDirentSize + 2 * MaxEntries - 10,
     MaxEntries * (WasiDirentSize + MaxEntries)}

NextIter ==
    \/ \E dir \in Listings : OpenDirectory(dir)
    \/ IterNext
    \/ IterBack
    \/ IterReset
    \/ \E bufferLen \in BufferLens : CopyDirentsToWasiBuffer(bufferLen)

SpecIter == InitOneBuild /\ [][NextIter]_vars

\* Every kind of suspending call, well-formed, between the instances of every
\* rank, each on its own thread.  Thread 0 makes the calls that wait for a
\* message or a request; the other threads send to it; all enter barriers and
\* any may finalize or abort.  The engine is bound to raise in a suspended
\* call whose world is destroyed; nothing binds a thread to send or arrive.
PeerRank(t) == IF t = 0 THEN msg[Other(t)].mpirank ELSE msg[0].mpirank

NextCancel ==
    \/ \E t \in Threads : MPI_Init(t, 0, 0)
    \/ \E t \in Threads : MPI_Finalize(t)
    \/ \E t \in Threads : MPI_Abort(t, G.commWorld, 1)
    \/ \E t \in Threads \ {0} : MPI_Send(t, G.buf, 1, G.dtInt, PeerRank(t), 0, G.commWorld)
    \/ \E t \in {0} : MPI_Recv(t, G.buf2, 1, G.dtInt, PeerRank(t), 0, G.commWorld, G.status)
    \/ \E t \in {0} : MPI_Sendrecv(t, G.buf, 1, G.dtInt, PeerRank(t), 0, G.buf2, 1, G.dtInt,
                                   PeerRank(t), 0, G.commWorld, G.status)
    \/ \E t \in {0} : MPI_Probe(t, PeerRank(t), 0, G.commWorld, G.status)
    \/ \E t \in {0} : MPI_Irecv(t, G.buf2, 1, G.dtInt, PeerRank(t), 0, G.commWorld, G.req)
    \/ \E t \in {0} : MPI_Wait(t, G.req, G.status)
    \/ \E t \in Threads : MPI_Barrier(t, G.commWorld)
    \/ \E t \in Threads : RecvReturns(t)
    \/ \E t \in Threads : ProbeReturns(t)
    \/ \E t \in Threads : WaitReturns(t)
    \/ \E t \in Threads : CollectiveReturns(t)
    \/ \E t \in Threads : EngineRaises(t)
    \/ \E w \in 1 .. MaxWorlds : EngineRelease(w)
    \/ \E w \in 1 .. MaxWorlds : \E u \in Threads : SchedulerChains(w, u)

\* What the engine owes this layer once a world is destroyed: the
\* cancellation reaches every call suspended in that world.  The handlers
\* have no part in it beyond asking for the destruction.
EngineCancels == \A t \in Threads : WF_vars(EngineRaises(t))

SpecCancel == InitBoth /\ [][NextCancel]_vars /\ EngineCancels

\* ------------------------------------------------------------------ claims
\* The thread of the latest call, or 0 before any call.
LastThread == IF last.t \in Threads THEN last.t ELSE 0

\* The latest call was made with a context and its argument i names the
\* world communicator.
OnWorldComm(i) ==
    /\ last.hadCtx
    /\ checkMpiComm(LastThread, last.args[i]) = "ok"

\* C1: after MPI_Init, every MPI_Comm_rank call with the world communicator
\* and a result slot in mapped memory returns success with the instance's
\* rank r in the slot, and every such MPI_Comm_size call with the world's
\* size N in the slot, on every call until Finalize/Abort.
C1_RankAndSizeQueries ==
    (/\ last.op \in {"MPI_Comm_rank", "MPI_Comm_size"}
     /\ OnWorldComm(1)
     /\ InBounds(memSize[LastThread], last.args[2], 4))
    => /\ last.outcome = "return"
       /\ last.ret = MPI_SUCCESS
       /\ Load32(mem[LastThread], last.args[2]) =
              IF last.op = "MPI_Comm_rank" THEN msg[LastThread].mpirank ELSE WorldSize

\* C1 happens: the instance of rank 1 has asked for its rank and read 1.
C1_Witness ==
    /\ last.op = "MPI_Comm_rank"
    /\ last.t = 1
    /\ last.outcome = "return"
    /\ Load32(mem[1], last.args[2]) = 1

\* C2 as stated: every operation other than MPI_Init that is called with no
\* live context ends in a fault, without an engine call and without a write
\* to guest memory.
C2_NoContextAlwaysFaults ==
    (last.op \notin {"none", "MPI_Init"} /\ ~last.hadCtx)
    => /\ last.outcome = "fault"
       /\ last.eng = <<>>
       /\ last.writes = <<>>

\* C2 fails: MPI_Get_processor_name has written the guest's buffer and
\* returned success on a thread that never had a context.
C2_Witness ==
    /\ last.op = "MPI_Get_processor_name"
    /\ ~last.hadCtx
    /\ last.outcome = "return"
    /\ last.ret = MPI_SUCCESS
    /\ last.writes # <<>>
    /\ worlds = <<>>

\* C3: MPI_Finalize and MPI_Abort with a live context ask the engine for the
\* destruction of the bound world exactly once, return, and leave the thread
\* without a context; with no live context (a second call included) they
\* fault and ask the engine for nothing.
C3_TerminateOnce ==
    last.op \in {"MPI_Finalize", "MPI_Abort"}
    => IF last.hadCtx
       THEN /\ last.outcome = "return"
            /\ Len(last.eng) = 1
            /\ last.eng[1].fn = "destroy"
            /\ worlds[last.eng[1].a[1]].destroyed
            /\ ctx[LastThread] = NoCtx
       ELSE /\ last.outcome = "fault"
            /\ last.eng = <<>>

\* C3 happens: rank 0 has finalized the world it created and calls
\* MPI_Finalize a second time.
C3_Witness ==
    /\ last.op = "MPI_Finalize"
    /\ last.t = 0
    /\ last.outcome = "fault"
    /\ Len(worlds) = 1
    /\ worlds[1].destroyed

UnsupportedSet ==
    {"MPI_Rsend", "MPI_Waitall", "MPI_Waitany", "MPI_Op_create", "MPI_Win_create",
     "MPI_Win_fence", "MPI_Get", "MPI_Put", "MPI_Win_free", "MPI_Comm_dup",
     "MPI_Comm_split", "MPI_Comm_c2f", "MPI_Comm_f2c", "MPI_Allgatherv", "MPI_Alltoallv",
     "MPI_Reduce_scatter", "MPI_Get_version"}

\* C4: a call of the unsupported set faults whatever its arguments and
\* whether or not the thread has a context; the step of the call delegates
\* nothing to the engine and changes neither guest memory, its size, the
\* context nor the engine's state.
C4_UnsupportedAlwaysFails ==
    [][(last' # last /\ last'.op \in UnsupportedSet)
       => /\ last'.outcome = "fault"
          /\ last'.eng = <<>>
          /\ last'.writes = <<>>
          /\ last'.grew = 0
          /\ UNCHANGED <<mem, memSize, ctx, executingContext, engineVars>>]_vars

\* C4 happens: MPI_Win_create has been called on a thread with a live
\* context and has thrown.
C4_Witness ==
    /\ last.op = "MPI_Win_create"
    /\ last.hadCtx
    /\ last.outcome = "fault"
    /\ last.fault = "throw"

\* The position of the communicator among the arguments of the operations
\* that take one.
CommArg ==
    [MPI_Send |-> 6, MPI_Isend |-> 6, MPI_Recv |-> 6, MPI_Irecv |-> 6, MPI_Sendrecv |-> 11,
     MPI_Probe |-> 3, MPI_Bcast |-> 5, MPI_Barrier |-> 1, MPI_Scatter |-> 8,
     MPI_Gather |-> 8, MPI_Allgather |-> 7, MPI_Reduce |-> 7, MPI_Allreduce |-> 6,
     MPI_Scan |-> 6, MPI_Alltoall |-> 7, MPI_Comm_size |-> 1, MPI_Comm_rank |-> 1,
     MPI_Cart_create |-> 1, MPI_Cart_rank |-> 1, MPI_Cart_get |-> 1, MPI_Cart_shift |-> 1]

\* The latest call took a communicator descriptor whose id is not that of
\* the world communicator, on a thread with a context.
OnOtherComm ==
    /\ last.op \in DOMAIN CommArg
    /\ last.hadCtx
    /\ checkMpiComm(LastThread, last.args[CommArg[last.op]]) = "throw"

\* C5 as stated: an operation called with a communicator other than the world
\* communicator faults before any engine call, any write to guest memory and
\* any growth of guest memory.
C5_OtherCommunicatorFails ==
    OnOtherComm
    => /\ last.outcome = "fault"
       /\ last.eng = <<>>
       /\ last.writes = <<>>
       /\ last.grew = 0

\* C5 fails: MPI_Cart_create with a communicator of another id has grown
\* guest memory, written the new communicator's slot and returned success.
C5_Witness ==
    /\ last.op = "MPI_Cart_create"
    /\ OnOtherComm
    /\ last.outcome = "return"
    /\ last.ret = MPI_SUCCESS
    /\ last.grew > 0
    /\ last.writes # <<>>

\* The buffers of the point-to-point operations: the positions of buffer,
\* count and datatype among the arguments, one triple per buffer.
BufferArgs ==
    [MPI_Send |-> {<<1, 2, 3>>}, MPI_Isend |-> {<<1, 2, 3>>}, MPI_Recv |-> {<<1, 2, 3>>},
     MPI_Irecv |-> {<<1, 2, 3>>}, MPI_Sendrecv |-> {<<1, 2, 3>>, <<6, 7, 8>>}]

\* The latest call is a point-to-point call on the world communicator with
\* datatypes in mapped memory, one of whose buffers of count x datatype size
\* bytes reaches past the end of mapped memory.
RangePastEnd ==
    /\ last.op \in DOMAIN BufferArgs
    /\ OnWorldComm(CommArg[last.op])
    /\ \A b \in BufferArgs[last.op] : getFaasmDataType(LastThread, last.args[b[3]])
    /\ \E b \in BufferArgs[last.op] :
           ~InBounds(memSize[LastThread], last.args[b[1]],
                     SatMul(last.args[b[2]], DtypeSize(LastThread, last.args[b[3]])))

\* C6 as stated: a point-to-point call whose range of count x datatype size
\* bytes reaches past the end of mapped guest memory faults and never
\* reaches the engine.
C6_WholeRangeChecked ==
    RangePastEnd => (last.outcome = "fault" /\ last.eng = <<>>)

\* C6 fails: MPI_Recv of two 4-byte elements into the last four bytes of
\* guest memory has passed the bounds check and waits in the engine's recv.
C6_Witness ==
    /\ last.op = "MPI_Recv"
    /\ RangePastEnd
    /\ last.views = <<<<Edge(LastThread), 2>>>>
    /\ last.outcome = "blocked"
    /\ last.eng # <<>>
    /\ last.eng[1].fn = "recv"

\* C7 as stated: MPI_Get_count with a context and its three pointers in
\* mapped memory, on a status of b transferred bytes and a datatype of size
\* s, returns without a fault; when b is a multiple of s it returns success
\* with a count in the slot whose product with s is b (b / s), and when it is
\* not it returns another code and leaves memory as it was.
C7_GetCount ==
    [][\A t \in Threads :
        (/\ last' # last
         /\ last'.op = "MPI_Get_count"
         /\ last'.t = t
         /\ ctx[t].live
         /\ InBounds(memSize[t], last'.args[1], 16)
         /\ getFaasmDataType(t, last'.args[2])
         /\ InBounds(memSize[t], last'.args[3], 4))
        => LET b == Load32(mem[t], last'.args[1] + 12)
               s == DtypeSize(t, last'.args[2])
               multiple == IF s = 0 THEN b = 0 ELSE TruncRem(b, s) = 0
           IN  /\ last'.outcome = "return"
               /\ IF multiple
                  THEN /\ last'.ret = MPI_SUCCESS
                       /\ Mul32(Load32(mem'[t], last'.args[3]), s) = b
                  ELSE /\ last'.ret # MPI_SUCCESS
                       /\ mem'[t] = mem[t]]_vars

\* C7 fails: MPI_Get_count on a datatype descriptor whose size is 0 has
\* stopped the thread with SIGFPE at the remainder and written nothing.
C7_Witness ==
    /\ last.op = "MPI_Get_count"
    /\ last.outcome = "fault"
    /\ last.fault = "sigfpe"
    /\ last.writes = <<>>
    /\ DtypeSize(LastThread, last.args[2]) = 0

\* The positions of the receive buffer among the arguments of the
\* collectives that honour the in-place value, and among the arguments of
\* the engine call they delegate to (send buffer, receive buffer).
InPlaceOps == {"MPI_Allreduce", "MPI_Gather", "MPI_Allgather", "MPI_Reduce", "MPI_Scan"}
RecvArg(op) == IF op \in {"MPI_Gather", "MPI_Allgather"} THEN 4 ELSE 2

\* The latest call is one of these collectives, on the world communicator,
\* with its receive buffer in mapped memory.
InPlaceOp ==
    /\ last.op \in InPlaceOps
    /\ OnWorldComm(CommArg[last.op])
    /\ InBounds(memSize[LastThread], last.args[RecvArg(last.op)], 8)

\* C8 as stated: called with the in-place value as the send pointer, the
\* collective hands the engine the receive buffer as its send buffer and
\* builds no view from the send pointer; called with any other send pointer
\* whose buffer lies in mapped memory, it hands the engine the buffer at
\* that pointer.
C8_InPlaceSharesBuffer ==
    InPlaceOp
    => IF last.args[1] = FAABRIC_IN_PLACE
       THEN /\ last.eng # <<>>
            /\ last.eng[1].a[3] = last.args[RecvArg(last.op)]
            /\ last.eng[1].a[4] = last.args[RecvArg(last.op)]
            /\ \A i \in DOMAIN last.views : last.views[i][1] # last.args[1]
       ELSE (InBounds(memSize[LastThread], last.args[1], 8) /\ last.eng # <<>>)
            => last.eng[1].a[3] = last.args[1]

\* C8 fails where no U8 equals the in-place value: MPI_Allreduce called in
\* place has faulted on the resolution of the in-place value as a guest
\* address and has not reached the engine.
C8_Witness ==
    /\ last.op = "MPI_Allreduce"
    /\ InPlaceOp
    /\ last.args[1] = FAABRIC_IN_PLACE
    /\ last.outcome = "fault"
    /\ last.fault = "oob"
    /\ last.eng = <<>>

\* C9: the integer MPI_Isend or MPI_Irecv leaves in the request slot is the
\* handle the engine returned, and the handle an MPI_Wait awaits in the
\* engine is the integer in its request slot.
C9_HandleRoundTrip ==
    /\ (last.op \in {"MPI_Isend", "MPI_Irecv"} /\ last.outcome = "return")
       => Load32(mem[LastThread], last.args[7]) = last.handle
    /\ (last.op = "MPI_Wait" /\ last.eng # <<>>)
       => /\ Len(last.eng) = 1
          /\ last.eng[1].fn = "awaitAsyncRequest"
          /\ last.eng[1].a = <<Load32(mem[LastThread], last.args[1])>>

\* C9 happens: the engine has handed out the negative handle HandleOf(2),
\* the slot holds it, and an MPI_Wait on that slot has awaited it and
\* returned.
C9_Witness ==
    /\ last.op = "MPI_Wait"
    /\ last.outcome = "return"
    /\ last.eng[1].a = <<HandleOf(2)>>
    /\ Load32(mem[LastThread], last.args[1]) = HandleOf(2)
    /\ worlds[1].issued = 2

\* C10 as stated: once an MPI_Wait on a slot has returned, the next MPI_Wait
\* on the same slot does not await the same handle in the engine again.
C10_WaitInvalidatesSlot ==
    [][(/\ last.op = "MPI_Wait"
        /\ last.outcome = "return"
        /\ last' # last
        /\ last'.op = "MPI_Wait"
        /\ last'.args[1] = last.args[1])
       => (last'.eng = <<>> \/ last'.eng[1].a # last.eng[1].a)]_vars

\* C10 fails: an MPI_Wait has returned, the slot still holds the handle it
\* awaited, and the engine no longer holds a request of that handle.
C10_Witness ==
    /\ last.op = "MPI_Wait"
    /\ last.outcome = "return"
    /\ last.eng[1].a = <<Load32(mem[LastThread], last.args[1])>>
    /\ \A r \in requests : r.id # last.eng[1].a[1]

\* C11: MPI_Init on a record whose rank is at most 0 asks the engine for a
\* new world and writes the id it returns into the thread's own record; on a
\* record of a rank above 0 it creates no world, leaves the records alone and
\* joins the world the record names.  When it returns, the thread's context
\* is live and bound to that world.  The step is the same whatever the two
\* arguments are: nothing below reads them.
C11_InitCreatesOrJoins ==
    [][\A t \in Threads :
        (last' # last /\ last'.op = "MPI_Init" /\ last'.t = t)
        => /\ IF msg[t].mpirank <= 0
              THEN /\ worlds' = Append(worlds, NewWorld)
                   /\ last'.eng = <<[fn |-> "createWorld", a |-> <<Len(worlds')>>]>>
                   /\ msg'[t] = [msg[t] EXCEPT !.mpiworldid = Len(worlds')]
                   /\ last'.outcome = "return"
                   /\ last'.ret = 0
                   /\ ctx'[t] = [worldId |-> Len(worlds'), rank |-> 0, live |-> TRUE]
              ELSE /\ worlds' = worlds
                   /\ msg' = msg
                   /\ last'.eng = <<[fn |-> "joinWorld", a |-> <<msg[t].mpiworldid>>]>>
                   /\ last'.outcome = "return"
                      => /\ last'.ret = 0
                         /\ ctx'[t] = [worldId |-> msg[t].mpiworldid,
                                       rank |-> msg[t].mpirank, live |-> TRUE]
           /\ last'.writes = <<>>
           /\ UNCHANGED <<mem, memSize, queues, requests>>]_vars

\* C11 happens: an instance whose record declares rank -1 has called MPI_Init
\* with two different arguments, has created world 1 and holds a context.
C11_Witness ==
    /\ last.op = "MPI_Init"
    /\ last.args[1] # last.args[2]
    /\ msg[LastThread] = [mpirank |-> -1, mpiworldid |-> 1]
    /\ last.outcome = "return"
    /\ ctx[LastThread].live
    /\ Len(worlds) = 1

InertSet == {"MPI_Comm_free", "MPI_Free_mem", "MPI_Type_contiguous", "MPI_Type_commit"}

\* C12: a call of MPI_Comm_free, MPI_Free_mem, MPI_Type_contiguous or
\* MPI_Type_commit returns success whatever its arguments and whether or not
\* the thread has a context; the step of the call delegates nothing to the
\* engine and changes neither guest memory, its size, the context nor the
\* engine's state.
C12_InertAlwaysSucceeds ==
    [][(last' # last /\ last'.op \in InertSet)
       => /\ last'.outcome = "return"
          /\ last'.ret = MPI_SUCCESS
          /\ last'.eng = <<>>
          /\ last'.writes = <<>>
          /\ last'.grew = 0
          /\ UNCHANGED <<mem, memSize, growths, ctx, executingContext, engineVars>>]_vars

\* C12 happens: MPI_Type_commit has returned success for a pointer outside
\* mapped memory on a thread without a context.
C12_Witness ==
    /\ last.op = "MPI_Type_commit"
    /\ last.args = <<Oob>>
    /\ ~last.hadCtx
    /\ last.outcome = "return"
    /\ last.ret = MPI_SUCCESS
    /\ mem[LastThread] = InitialImage

CartGetArrays(c) == {c.args[3], c.args[4], c.args[5]}
CartGetFilled(c) == UNION {a .. (a + 4 * MPI_CART_MAX_DIMENSIONS - 1) : a \in CartGetArrays(c)}

C16_SendRecvRoundTrip ==
    [][\A t \in Threads :
        /\ (/\ last' # last
            /\ last'.t = t
            /\ last'.op \in {"MPI_Send", "MPI_Isend"}
            /\ last'.outcome = "return")
           => /\ Len(queues') = Len(queues) + 1
              /\ LET k == queues'[Len(queues')]
                 IN  /\ k.data = LoadBytes(mem[t], last'.args[1],
                                           SatMul(last'.args[2], DtypeSize(t, last'.args[3])))
                     /\ k.w = ctx[t].worldId
                     /\ k.src = ctx[t].rank
                     /\ k.dst = last'.args[4]
        /\ (/\ pc[t] = "blocked"
            /\ pending[t].op = "MPI_Recv"
            /\ pc'[t] = "idle")
           => LET i == FirstMsg(ctx[t].worldId, pending[t].args[4], ctx[t].rank)
                  B == queues[i].data
              IN  /\ i # 0
                  /\ last'.op = "MPI_Recv"
                  /\ last'.ret = 0
                  /\ queues' = RemoveAt(queues, i)
                  /\ LoadBytes(mem'[t], last'.args[1], Len(B)) = B
                  /\ B = LoadBytes(mem'[0], G.buf, Len(B))
                  /\ Load32(mem'[t], last'.args[7]) = last'.args[4]
                  /\ Load32(mem'[t], last'.args[7] + 12) = Len(B)
        /\ (/\ last.op = "MPI_Recv"
            /\ last.outcome = "return"
            /\ last.t = t
            /\ last' # last
            /\ last'.op = "MPI_Get_count"
            /\ last'.t = t
            /\ last'.args[1] = last.args[7]
            /\ last'.args[2] = last.args[3]
            /\ Load32(mem[t], last.args[7] + 12) = SatMul(last.args[2], DtypeSize(t, last.args[3])))
           => /\ last'.outcome = "return"
              /\ last'.ret = MPI_SUCCESS
              /\ Load32(mem'[t], last'.args[3]) = last.args[2]]_vars

\* C16 happens: the instance of rank 0 has received the two 4-byte elements
\* that the instance of rank 1 sent from its buffer, and MPI_Get_count on the
\* status of the receive has yielded 2.
C16_Witness ==
    /\ last.op = "MPI_Get_count"
    /\ last.t # 0
    /\ last.outcome = "return"
    /\ last.ret = MPI_SUCCESS
    /\ ctx[LastThread].live
    /\ ctx[LastThread].rank = 0
    /\ Load32(mem[LastThread], last.args[3]) = 2
    /\ Load32(mem[LastThread], G.status + 12) = 8
    /\ Load32(mem[LastThread], G.status) = 1
    /\ LoadBytes(mem[LastThread], G.buf2, 8) = LoadBytes(mem[0], G.buf, 8)
    /\ LoadBytes(mem[LastThread], G.buf2, 8) = <<11, 0, 0, 0, 44, 1, 0, 0>>

\* The send requests of the rank of thread t that the engine holds
\* incomplete under the handle h, in a world that is not destroyed.
OutstandingSend(t, h) ==
    {r \in requests : /\ r.id = h /\ r.kind = "send" /\ ~r.done
                      /\ r.w = ctx[t].worldId /\ r.rank = ctx[t].rank
                      /\ WorldOk(r.w)}

\* C17: an MPI_Wait on a slot that holds the handle of an incomplete
\* asynchronous send, in a world not destroyed, awaits that handle in the
\* engine and does not return.  While the request stays incomplete and the
\* world is not destroyed, no step takes the thread out of the wait: whatever
\* else happens, it is still suspended in the same call.  So when the wait
\* returns, the request was complete, and the message it sent is no longer in
\* flight: a receive has taken it.
C17_WaitBlocksUntilComplete ==
    [][\A t \in Threads :
        /\ (/\ last' # last
            /\ last'.op = "MPI_Wait"
            /\ last'.t = t
            /\ ctx[t].live
            /\ InBounds(memSize[t], last'.args[1], 4)
            /\ OutstandingSend(t, Load32(mem[t], last'.args[1])) # {})
           => /\ last'.outcome = "blocked"
              /\ last'.eng = <<[fn |-> "awaitAsyncRequest",
                                a |-> <<Load32(mem[t], last'.args[1])>>]>>
              /\ pc'[t] = "blocked"
        /\ (/\ pc[t] = "blocked"
            /\ pending[t].op = "MPI_Wait"
            /\ OutstandingSend(t, pending[t].eng[1].a[1]) # {})
           => /\ pc'[t] = "blocked"
              /\ pending'[t] = pending[t]
        /\ (/\ pc[t] = "blocked"
            /\ pending[t].op = "MPI_Wait"
            /\ pc'[t] = "idle"
            /\ \E r \in requests : /\ r.id = pending[t].eng[1].a[1]
                                    /\ r.w = ctx[t].worldId
                                    /\ r.kind = "send")
           => /\ \A r \in requests :
                    (r.id = pending[t].eng[1].a[1] /\ r.w = ctx[t].worldId) => r.done
              /\ \A i \in 1 .. Len(queues) :
                     ~(/\ queues[i].async
                       /\ queues[i].w = ctx[t].worldId
                       /\ queues[i].id = pending[t].eng[1].a[1])]_vars

\* C17 happens: a thread is suspended in MPI_Wait on the handle of its
\* asynchronous send, whose message no receive has taken yet, while a later
\* message of a peer is already in flight behind it.
C17_Witness ==
    \E t \in Threads :
        /\ pc[t] = "blocked"
        /\ pending[t].op = "MPI_Wait"
        /\ OutstandingSend(t, pending[t].eng[1].a[1]) # {}
        /\ Len(queues) = 2
        /\ queues[1].async
        /\ queues[1].id = pending[t].eng[1].a[1]
        /\ ~queues[2].async

\* C18: in every state, a rank that has come out of k collectives of a world
\* has done so after every rank of the world had arrived at k of them; and
\* every MPI_Barrier that returns is the next one its rank comes out of, all
\* ranks having arrived at as many before the step.
C18_BarrierWaitsForAll ==
    [][/\ \A w \in 1 .. Len(worlds') : \A r, q \in DOMAIN worlds'[w].left :
              worlds'[w].left[r] <= worlds'[w].entered[q]
       /\ \A t \in Threads :
            (/\ last' # last
             /\ last'.op = "MPI_Barrier"
             /\ last'.t = t
             /\ last'.outcome = "return")
            => LET w == ctx[t].worldId
                   k == worlds[w].left[ctx[t].rank] + 1
               IN  /\ last'.ret = MPI_SUCCESS
                   /\ last'.eng = <<[fn |-> "barrier",
                                     a |-> CollArgs(t, -1, 0, 0, 0, 0)]>>
                   /\ worlds'[w].left[ctx[t].rank] = k
                   /\ \A q \in DOMAIN worlds[w].entered : worlds[w].entered[q] >= k]_vars

\* C18 happens: one rank has come out of its second barrier while the other,
\* which arrived at it too, is still inside.
C18_Witness ==
    /\ last.op = "MPI_Barrier"
    /\ last.outcome = "return"
    /\ Len(worlds) = 1
    /\ worlds[1].left[ctx[LastThread].rank] = 2
    /\ \E q \in DOMAIN worlds[1].left :
           /\ worlds[1].left[q] = 1
           /\ worlds[1].entered[q] = 2
           /\ worlds[1].coll[q] = "released"

\* What the suspended call of thread t waits for has arrived: a message from
\* its source, the completion of its request, the release of its collective.
Completion(t) ==
    LET e == EngineCall(pending[t])
        w == ctx[t].worldId
        me == ctx[t].rank
    IN  \/ e.fn = "recv" /\ FirstMsg(w, e.a[1], me) # 0
        \/ e.fn = "sendRecv" /\ FirstMsg(w, e.a[8], me) # 0
        \/ e.fn = "probe" /\ FirstMsg(w, e.a[1], me) # 0
        \/ /\ e.fn = "awaitAsyncRequest"
           /\ \E r \in requests :
                /\ r.id = e.a[1] /\ r.w = w /\ r.rank = me
                /\ IF r.kind = "send" THEN r.done ELSE FirstMsg(w, r.peer, me) # 0
        \/ e.fn \in CollFns /\ worlds[w].coll[me] = "released"

\* The latest call is an MPI_Finalize or MPI_Abort that has returned on
\* thread u, whose message record names world w.
Terminated(u, w) ==
    /\ last.t = u
    /\ last.op \in {"MPI_Finalize", "MPI_Abort"}
    /\ last.outcome = "return"
    /\ msg[u].mpiworldid = w

C20_ContextPerThread ==
    [][\A t \in Threads :
         (/\ last' # last
          /\ last'.t = t
          /\ last'.op \in {"MPI_Init", "MPI_Finalize", "MPI_Abort"})
         => /\ \A u \in Threads \ {t} :
                  /\ ctx'[u] = ctx[u]
                  /\ executingContext'[u] = executingContext[u]
            /\ (last'.op = "MPI_Init" /\ last'.outcome = "return")
               => /\ ctx'[t].live
                  /\ ctx'[t].worldId = executingContext'[t].worldId
                  /\ ctx'[t].rank = executingContext'[t].rank
                  /\ ctx'[t].rank = IF msg[t].mpirank <= 0 THEN 0 ELSE msg[t].mpirank
            /\ (last'.op # "MPI_Init" /\ last'.outcome = "return")
               => ~ctx'[t].live
            /\ last'.outcome = "fault" => ctx'[t] = ctx[t]]_vars

\* C20 happens: two threads held contexts of different ranks of one world, one
\* of them has just finalized and holds none, the other still holds its own.
C20_Witness ==
    /\ last.op = "MPI_Finalize"
    /\ last.outcome = "return"
    /\ last.hadCtx
    /\ ~ctx[last.t].live
    /\ \E u \in Threads \ {last.t} :
         /\ ctx[u].live
         /\ ctx[u].rank = msg[u].mpirank
         /\ ctx[u].rank # executingContext[last.t].rank
         /\ ctx[u].worldId = executingContext[last.t].worldId

\* The rank a call names to the engine besides its own.
NamedRank(c) == c.args[4]

\* C21: an MPI_Isend, MPI_Irecv or MPI_Bcast that has got as far as the
\* engine ends as the engine's call ends.  When the engine refuses the call
\* (destroyed world, rank not of the world) the call ends in the engine's
\* failure, guest memory is as before and no output slot has been written;
\* a call returns a code only when the engine accepted it, and the code is
\* MPI_SUCCESS; a suspended broadcast whose world is destroyed ends in the
\* engine's failure with guest memory as before.
C21_EngineOutcomePassedThrough ==
    [][\A t \in Threads :
         /\ (/\ last' # last
             /\ last'.t = t
             /\ last'.op \in {"MPI_Isend", "MPI_Irecv", "MPI_Bcast"}
             /\ last'.eng # <<>>
             /\ pc[t] = "idle")
            => /\ ~EngineAccepts(ctx[t].worldId, {NamedRank(last')})
                  => /\ last'.outcome = "fault"
                     /\ last'.fault = "engine"
                     /\ last'.writes = <<>>
                     /\ last'.handle = 0
                     /\ mem' = mem
                     /\ engineVars' = engineVars
               /\ last'.outcome = "return"
                  => /\ EngineAccepts(ctx[t].worldId, {NamedRank(last')})
                     /\ last'.ret = MPI_SUCCESS
                     /\ last'.writes = <<<<last'.args[7], 4>>>>
                     /\ Load32(mem'[t], last'.args[7]) = last'.handle
         /\ (pc[t] = "blocked" /\ pc'[t] # "blocked" /\ ~WorldOk(ctx[t].worldId))
            => /\ last' = Fault(pending[t], "engine")
               /\ pc'[t] = "faulted"
               /\ mem' = mem]_vars

\* C21 happens: an MPI_Isend with every argument in order but its destination
\* rank, which the world has not, has ended in the engine's failure with the
\* request slot as it was.
C21_Witness ==
    /\ last.op = "MPI_Isend"
    /\ last.eng # <<>>
    /\ last.outcome = "fault"
    /\ last.fault = "engine"
    /\ WorldOk(ctx[LastThread].worldId)
    /\ ~RankOk(ctx[LastThread].worldId, last.args[4])
    /\ InBounds(memSize[LastThread], last.args[7], 4)
    /\ Load32(mem[LastThread], last.args[7]) = Load32(InitialImage, last.args[7])

\* C22: a newly opened descriptor is at position 0; a seek reports the
\* previous position plus its offset when it is relative to the current
\* position and its offset when it is absolute; and after every call tell()
\* is the position the last seek reported (0 when there was none), which a
\* tell() returns and leaves as it is.
C22_SeekAndTell ==
    [][fd' # fd =>
         /\ fd'.op = "openFileDescriptor" => (tell(fd') = 0 /\ fd'.actual = 0)
         /\ fd'.op = "seek"
            => fd'.actual = IF fd'.args[2] = "__WASI_WHENCE_CUR"
                            THEN tell(fd) + fd'.args[1] ELSE fd'.args[1]
         /\ fd'.op = "tell" => (fd'.ret = tell(fd) /\ fd'.actual = fd.actual)
         /\ tell(fd') = fd'.actual]_vars

\* C22 happens: a relative seek with a negative offset from a position other
\* than 0 has moved the descriptor back to a position other than 0.
C22_Witness ==
    /\ fd.op = "seek"
    /\ fd.args[2] = "__WASI_WHENCE_CUR"
    /\ fd.args[1] < 0
    /\ tell(fd) = 2
    /\ fd.actual = 2

\* C23: a directory descriptor just opened or reset has neither started nor
\* finished.  Every iterNext returns the entry at the iterator's position and
\* moves it on by one, next being the new position: the i-th entry handed
\* out since the reset, by iterNext or whole in a buffer, with no iterBack
\* between, is the i-th entry of the listing with next = i (from 1).  An
\* iterNext right after one iterBack returns the entry last handed out again.
\* The iterator becomes finished in exactly the steps that hand out the last
\* entry of the listing, and stays so until an iterBack or a reset; it is
\* never finished before every entry has been handed out, and a walk with no
\* iterBack is finished exactly when as many entries have been handed out as
\* the listing has, which are then the listing in order.  The entries a copy
\* into a buffer hands out are the next ones of the listing, in order.
C23_DirectoryIterator ==
    [][(fd' # fd /\ fd'.kind = "dir") =>
         LET n == Len(fd'.dirContents)
             i == Len(fd'.returned)
             handsOut == fd'.op \in {"iterNext", "copyDirentsToWasiBuffer"}
         IN  /\ fd'.op \in {"openFileDescriptor", "iterReset"}
                => (~iterStarted(fd') /\ ~iterFinished(fd') /\ fd'.returned = <<>>)
             /\ fd'.op = "iterNext"
                => /\ iterStarted(fd')
                   /\ fd'.returned = Append(fd.returned, fd'.ent.path)
                   /\ fd'.ent.next = fd.dirContentsIter + 1
                   /\ fd'.ent.path = fd'.dirContents[fd'.ent.next]
                   /\ fd'.dirContentsIter = fd'.ent.next
                   /\ fd'.straight
                      => (fd'.ent.path = fd'.dirContents[i] /\ fd'.ent.next = i)
                   /\ (fd.op = "iterBack" /\ fd.backs = 1) => fd'.ent = fd.ent
             /\ fd'.op = "copyDirentsToWasiBuffer"
                => /\ fd'.ret <= fd'.args[1]
                   /\ fd'.ret < fd'.args[1] => iterFinished(fd')
             /\ handsOut
                => /\ fd'.returned = fd.returned \o SubSeq(fd'.dirContents, fd.dirContentsIter + 1,
                                                            fd'.dirContentsIter)
                   /\ fd'.straight => \A k \in 1 .. i : fd'.returned[k] = fd'.dirContents[k]
             /\ (~iterFinished(fd) /\ iterFinished(fd'))
                <=> (handsOut /\ i > Len(fd.returned) /\ fd'.returned[i] = fd'.dirContents[n])
             /\ (iterFinished(fd) /\ ~iterFinished(fd'))
                => fd'.op \in {"openFileDescriptor", "iterReset", "iterBack"}
             /\ fd'.straight => (iterFinished(fd') <=> i = n)
             /\ (fd'.straight /\ iterFinished(fd')) => fd'.returned = fd'.dirContents
             /\ iterFinished(fd')
                => {fd'.returned[k] : k \in 1 .. i} = {fd'.dirContents[k] : k \in 1 .. n}
             /\ fd'.dirContents = IF fd'.op = "openFileDescriptor"
                                  THEN fd'.dirContents ELSE fd.dirContents]_vars

\* C23 happens: in a listing that is not in the order of the names, the first
\* two entries were handed out, the iterator went back once, iterNext returned
\* the second entry again and then the third, and the iterator is finished.
C23_Witness ==
    /\ fd.kind = "dir"
    /\ fd.op = "iterNext"
    /\ iterFinished(fd)
    /\ fd.dirContents = <<3, 1, 2>>
    /\ fd.returned = <<3, 1, 1, 2>>
    /\ fd.ent = [next |-> 3, path |-> 2]

\* C24 as stated: the in-place test of a collective holds of the send pointer
\* it was called with exactly when that pointer is the reserved in-place
\* value.
C24_InPlaceExactlyOneValue ==
    last.op \in InPlaceOps
    => (isInPlace(last.args[1]) <=> last.args[1] = FAABRIC_IN_PLACE)

\* C24 fails: MPI_Reduce was called with a send pointer that is not the
\* in-place value and agrees with it in its low 8 bits, the test held, and
\* the engine got the receive buffer as the send buffer.
C24_Witness ==
    /\ last.op = "MPI_Reduce"
    /\ last.args[1] # FAABRIC_IN_PLACE
    /\ last.args[1] % 256 = FAABRIC_IN_PLACE % 256
    /\ isInPlace(last.args[1])
    /\ last.eng # <<>>
    /\ last.eng[1].a[3] = last.args[2]
    /\ last.views = <<<<last.args[2], 8>>>>

\* The collectives that take a send buffer, as their first argument.
SendBufferOps ==
    {"MPI_Scatter", "MPI_Gather", "MPI_Allgather", "MPI_Reduce", "MPI_Allreduce", "MPI_Scan",
     "MPI_Alltoall"}

\* C25 as stated: a collective that takes a send buffer, called on the world
\* communicator with the reserved in-place value as its send pointer, builds
\* no view of guest memory from that pointer and does not end in the
\* out-of-bounds fault of a view.
C25_InPlaceTestedFirst ==
    (/\ last.op \in SendBufferOps
     /\ OnWorldComm(CommArg[last.op])
     /\ last.args[1] = FAABRIC_IN_PLACE)
    => /\ \A i \in DOMAIN last.views : last.views[i][1] # last.args[1]
       /\ ~(last.outcome = "fault" /\ last.fault = "oob")

\* C25 fails even where the in-place test recognizes the reserved value:
\* MPI_Alltoall, which makes no in-place test, has built a view of guest
\* memory at the reserved value and handed it to the engine as its send
\* buffer.
C25_Witness ==
    /\ last.op = "MPI_Alltoall"
    /\ OnWorldComm(CommArg[last.op])
    /\ last.args[1] = FAABRIC_IN_PLACE
    /\ isInPlace(last.args[1])
    /\ last.views = <<<<last.args[1], 8>>, <<last.args[4], 8>>>>
    /\ last.eng # <<>>
    /\ last.eng[1].a[3] = last.args[1]

\* The bytes a collective's engine call reads or writes through its send
\* buffer and through its receive buffer, as <<send, recv>>: c is the call
\* record, N the size of the world.
CollectiveBytes(c, N) ==
    LET sz(i) == DtypeSize(c.t, c.args[i])
        atRoot == c.eng[1].a[1] = c.eng[1].a[2]
    IN  CASE c.op = "MPI_Bcast" -> <<SatMul(c.args[2], sz(3)), SatMul(c.args[2], sz(3))>>
          [] c.op \in {"MPI_Reduce", "MPI_Allreduce", "MPI_Scan"}
               -> <<SatMul(c.args[3], sz(4)), SatMul(c.args[3], sz(4))>>
          [] c.op = "MPI_Gather"
               -> <<SatMul(c.args[2], sz(3)), IF atRoot THEN SatMul(N, SatMul(c.args[5], sz(6))) ELSE 0>>
          [] c.op = "MPI_Allgather" -> <<SatMul(c.args[2], sz(3)), SatMul(N, SatMul(c.args[5], sz(6)))>>
          [] c.op = "MPI_Scatter"
               -> <<IF atRoot THEN SatMul(N, SatMul(c.args[2], sz(3))) ELSE 0, SatMul(c.args[5], sz(6))>>
          [] c.op = "MPI_Alltoall" -> <<SatMul(N, SatMul(c.args[2], sz(3))), SatMul(N, SatMul(c.args[5], sz(6)))>>

\* The view of at least n bytes at buf that call c built, if any.
CheckedOver(c, buf, n) ==
    n = 0 \/ \E i \in DOMAIN c.views : c.views[i][1] = buf /\ c.views[i][2] >= n

\* C26 as stated: when a collective has handed its buffers to the engine,
\* each of them has been bounds-checked over every byte the collective reads
\* or writes through it.
C26_CollectiveBuffersChecked ==
    (/\ last.op \in DOMAIN CommArg
     /\ last.eng # <<>>
     /\ last.eng[1].fn \in CollFns \ {"barrier"})
    => LET b == CollectiveBytes(last, worlds[ctx[last.t].worldId].size)
       IN  /\ CheckedOver(last, last.eng[1].a[3], b[1])
           /\ CheckedOver(last, last.eng[1].a[4], b[2])

\* C26 fails: MPI_Allreduce of two 4-byte elements into the last four bytes
\* of guest memory has checked two bytes of the receive buffer and waits in
\* the engine's allReduce, where MPI_Reduce and MPI_Scan check eight.
C26_Witness ==
    /\ last.op = "MPI_Allreduce"
    /\ last.outcome = "blocked"
    /\ last.eng # <<>>
    /\ last.eng[1].fn = "allReduce"
    /\ last.args[2] = Edge(last.t)
    /\ SatMul(last.args[3], DtypeSize(last.t, last.args[4])) = 8
    /\ last.views = <<<<last.args[2], 2>>, <<last.args[1], 2>>>>
    /\ ~InBounds(memSize[last.t], last.args[2], 8)

\* Point-to-point traffic, blocking and asynchronous, in which the calls differ
\* in their tags, communicators and status or request pointers only.
Tags == {0, 5}
TagComms == {G.commWorld, G.commOther}
TaggedSends(t) ==
    {<<G.buf, 2, G.dtInt, Other(t), g, c>> : g \in Tags, c \in TagComms}
TaggedIsends(t) ==
    {<<G.buf, 2, G.dtInt, Other(t), g, G.commWorld, r>> : g \in Tags, r \in {G.req, Oob}}
TaggedRecvs(t) ==
    {<<G.buf2, 2, G.dtInt, Other(t), g, G.commWorld, st>> : g \in Tags, st \in {G.status, Oob}}
TaggedIrecvs(t) ==
    {<<G.buf2, 2, G.dtInt, Other(t), g, G.commWorld, G.req>> : g \in Tags}
TaggedSendrecvs(t) ==
    {<<G.buf, 2, G.dtInt, Other(t), g, G.buf2, 2, G.dtInt, Other(t), h, G.commWorld, G.status>> :
        g \in Tags, h \in Tags}
TaggedProbes(t) ==
    {<<Other(t), g, c, G.status>> : g \in Tags, c \in TagComms}

NextTag ==
    \/ \E t \in Threads : MPI_Init(t, 0, 0)
    \/ \E t \in Threads : \E a \in TaggedSends(t) :
           MPI_Send(t, a[1], a[2], a[3], a[4], a[5], a[6])
    \/ \E t \in Threads : \E a \in TaggedIsends(t) :
           MPI_Isend(t, a[1], a[2], a[3], a[4], a[5], a[6], a[7])
    \/ \E t \in Threads : \E a \in TaggedRecvs(t) :
           MPI_Recv(t, a[1], a[2], a[3], a[4], a[5], a[6], a[7])
    \/ \E t \in Threads : \E a \in TaggedIrecvs(t) :
           MPI_Irecv(t, a[1], a[2], a[3], a[4], a[5], a[6], a[7])
    \/ \E t \in Threads : \E a \in TaggedSendrecvs(t) :
           MPI_Sendrecv(t, a[1], a[2], a[3], a[4], a[5], a[6], a[7], a[8], a[9], a[10],
                        a[11], a[12])
    \/ \E t \in Threads : \E a \in TaggedProbes(t) : MPI_Probe(t, a[1], a[2], a[3], a[4])
    \/ \E t \in Threads : MPI_Wait(t, G.req, G.status)
    \/ \E t \in Threads : RecvReturns(t)
    \/ \E t \in Threads : ProbeReturns(t)
    \/ \E t \in Threads : WaitReturns(t)
    \/ \E w \in 1 .. MaxWorlds : \E p \in Threads : \E dst \in Threads :
           PeerSend(w, p, dst, <<1, 2, 3, 4, 5, 6>>)
    \/ \E w \in 1 .. MaxWorlds : \E p \in Threads : \E src \in Threads : PeerRecv(w, p, src)

SpecTag == InitOneBuild /\ [][NextTag]_vars

\* The positions of the tag arguments of the tagged calls.
TagArgs ==
    [MPI_Send |-> {5}, MPI_Isend |-> {5}, MPI_Recv |-> {5}, MPI_Irecv |-> {5},
     MPI_Sendrecv |-> {5, 10}, MPI_Probe |-> {2}]

\* A call record with its tag arguments blanked.
Untagged(c) ==
    IF c.op \in DOMAIN TagArgs
    THEN [c EXCEPT !.args = [i \in DOMAIN @ |-> IF i \in TagArgs[c.op] THEN 0 ELSE @[i]]]
    ELSE c

\* Everything a call leaves behind, up to the tags its record names: the
\* engine's queues, requests and worlds, guest memory and its size, the
\* threads' positions, and the records of the call and of the suspended calls.
Outcome ==
    <<queues, requests, worlds, mem, memSize, pc, ctx,
      [t \in DOMAIN pending |-> Untagged(pending[t])], Untagged(last)>>

\* C27: the tag argument has no effect.  Whenever a tagged call is made, the
\* same call with any other tag values could be made in the same state and
\* would make the same engine calls (the record's eng), leave the same
\* messages and requests in the engine and the same guest memory, and end the
\* same way; the suspended call's record, from which the engine later picks
\* the oldest message of the source, differs in the tag arguments only.
C27_TagHasNoEffect ==
    [][\A t \in Threads :
         /\ \A a \in TaggedSends(t) :
              (a = last'.args /\ MPI_Send(t, a[1], a[2], a[3], a[4], a[5], a[6]))
              => \A o \in {Outcome'} : \A g \in Tags :
                   ENABLED (MPI_Send(t, a[1], a[2], a[3], a[4], g, a[6]) /\ Outcome' = o)
         /\ \A a \in TaggedIsends(t) :
              (a = last'.args /\ MPI_Isend(t, a[1], a[2], a[3], a[4], a[5], a[6], a[7]))
              => \A o \in {Outcome'} : \A g \in Tags :
                   ENABLED (MPI_Isend(t, a[1], a[2], a[3], a[4], g, a[6], a[7]) /\ Outcome' = o)
         /\ \A a \in TaggedRecvs(t) :
              (a = last'.args /\ MPI_Recv(t, a[1], a[2], a[3], a[4], a[5], a[6], a[7]))
              => \A o \in {Outcome'} : \A g \in Tags :
                   ENABLED (MPI_Recv(t, a[1], a[2], a[3], a[4], g, a[6], a[7]) /\ Outcome' = o)
         /\ \A a \in TaggedIrecvs(t) :
              (a = last'.args /\ MPI_Irecv(t, a[1], a[2], a[3], a[4], a[5], a[6], a[7]))
              => \A o \in {Outcome'} : \A g \in Tags :
                   ENABLED (MPI_Irecv(t, a[1], a[2], a[3], a[4], g, a[6], a[7]) /\ Outcome' = o)
         /\ \A a \in TaggedSendrecvs(t) :
              (a = last'.args /\ MPI_Sendrecv(t, a[1], a[2], a[3], a[4], a[5], a[6], a[7], a[8],
                                              a[9], a[10], a[11], a[12]))
              => \A o \in {Outcome'} : \A g \in Tags : \A h \in Tags :
                   ENABLED (MPI_Sendrecv(t, a[1], a[2], a[3], a[4], g, a[6], a[7], a[8], a[9],
                                         h, a[11], a[12]) /\ Outcome' = o)
         /\ \A a \in TaggedProbes(t) :
              (a = last'.args /\ MPI_Probe(t, a[1], a[2], a[3], a[4]))
              => \A o \in {Outcome'} : \A g \in Tags :
                   ENABLED (MPI_Probe(t, a[1], g, a[3], a[4]) /\ Outcome' = o)]_vars

\* C27 happens: a receive that named tag 5 has returned with the bytes of a
\* message that was queued without any tag.
C27_Witness ==
    /\ last.op = "MPI_Recv"
    /\ last.args[5] = 5
    /\ last.outcome = "return"
    /\ last.writes # <<>>

\* C28 as stated: a memory-growing call that ends in a fatal fault leaves the
\* size of guest memory as it was before the call.
C28_FailedGrowthLeavesSize ==
    [][(/\ last' # last
        /\ last'.op \in {"MPI_Alloc_mem", "MPI_Cart_create"}
        /\ last'.outcome = "fault")
       => memSize' = memSize]_vars

\* C28 fails: MPI_Alloc_mem with a null info and a result pointer outside
\* guest memory has faulted on the write of the result, after growMemory made
\* guest memory one page larger.
C28_Witness ==
    /\ last.op = "MPI_Alloc_mem"
    /\ last.outcome = "fault"
    /\ last.fault = "oob"
    /\ Load32(mem[last.t], last.args[2]) = FAABRIC_INFO_NULL
    /\ ~InBounds(memSize[last.t], last.args[3], 4)
    /\ last.grew = WASM_BYTES_PER_PAGE
    /\ memSize[last.t] = (InitialPages + 1) * WASM_BYTES_PER_PAGE

\* C29 as stated: every range MPI_Get_processor_name writes lies inside the
\* buffer [buf, buf + bufLen) it was given and inside mapped guest memory.
C29_NameWithinBuffer ==
    last.op = "MPI_Get_processor_name"
    => \A i \in DOMAIN last.writes :
         LET a == last.writes[i][1]
             n == last.writes[i][2]
         IN  /\ last.args[1] <= a
             /\ a + n <= last.args[1] + last.args[2]
             /\ InBounds(memSize[last.t], a, n)

\* C29 fails: given a buffer of two bytes, MPI_Get_processor_name has
\* returned after strcpy wrote every byte of an identity longer than that and
\* its terminator, all but two of them past the end of the buffer.
C29_Witness ==
    /\ last.op = "MPI_Get_processor_name"
    /\ last.outcome = "return"
    /\ last.args[2] = 2
    /\ Len(endpointHost) + 1 > last.args[2]
    /\ last.writes = <<<<last.args[1], Len(endpointHost) + 1>>>>
    /\ LoadBytes(mem[last.t], last.args[1], Len(endpointHost) + 1) = Append(endpointHost, 0)

\* C30: MPI_Wait writes nothing to guest memory.  At every step of an
\* MPI_Wait, the call and its return from the engine, the request slot and
\* the status record hold the bytes they held before; a step that records no
\* write leaves all of guest memory alone, and the only write a return
\* records is the engine's delivery of the awaited receive into the buffer
\* its MPI_Irecv named.
C30_WaitWritesNothing ==
    [][(last' # last /\ last'.op = "MPI_Wait")
       => LET t == last'.t
              slot == last'.args[1]
              status == last'.args[2]
          IN  /\ InBounds(memSize[t], slot, 4)
                 => LoadBytes(mem'[t], slot, 4) = LoadBytes(mem[t], slot, 4)
              /\ InBounds(memSize[t], status, 16)
                 => LoadBytes(mem'[t], status, 16) = LoadBytes(mem[t], status, 16)
              /\ last'.writes = <<>> => mem' = mem
              /\ last'.writes # <<>>
                 => /\ last'.outcome = "return"
                    /\ Len(last'.writes) = 1
                    /\ \E r \in requests :
                         /\ r.id = last'.eng[1].a[1]
                         /\ r.kind = "recv"
                         /\ last'.writes[1][1] = r.buf]_vars

\* C30 happens: an MPI_Wait on an asynchronous receive has returned, the
\* message is in the receive buffer, and the slot still holds the handle
\* that was awaited.
C30_Witness ==
    /\ last.op = "MPI_Wait"
    /\ last.outcome = "return"
    /\ last.writes # <<>>
    /\ Load32(mem[last.t], last.args[1]) = last.eng[1].a[1]

====
